---------------------------- MODULE Spec2Model ----------------------------
(***************************************************************************)
(* Planner-input synthesis of internal-app (backend/app/api/data):         *)
(* queries.py builds the numeric-time instance, queries_cplex.py the       *)
(* timestamp instance.  The relational store is modelled by the rows its   *)
(* queries return; every loader loop body and every derivation step is     *)
(* translated from the Python source.                                      *)
(*                                                                         *)
(* Representation.                                                         *)
(*  - cycle[process_idx][product][workstation] (a nested dict that never   *)
(*    holds an empty inner dict) is the function <<idx, product, ws>> ->   *)
(*    value; minibatch[product][workstation] is <<product, ws>> -> qty.    *)
(*  - bom_data is a function product -> sequence of routes, a route being  *)
(*    a sequence of workstation codes.                                     *)
(*  - cycle times are counted in hundredths of a model time unit, so that  *)
(*    the float 0.01 of FAKE_CYCLE_TIME_MODEL is the integer 1.            *)
(*  - a work order is identified by its number and a product by its code   *)
(*    (the store keys them by integer ids, one id per number or code).     *)
(*  - instants of the store are integer minutes; the numeric instance      *)
(*    reports seconds, the timestamp instance the text of the instant,     *)
(*    a record of hundredths of a minute.                                  *)
(***************************************************************************)
EXTENDS Integers, Sequences, FiniteSets, TLC

VARIABLES
    bom_data,      \* queries.py load_bom_structure: product -> list of routes
    cycle,         \* queries.py load_cycle_structure: <<idx, product, ws>> -> time/unit
    minibatch,     \* queries.py load_minibatch_structure: <<product, ws>> -> qty
    pad_hist,      \* the tables as they were before each run of the normalizer
    work_orders,   \* store: work_order_number -> row of work_orders (joined with products)
    barcode_events,\* store: the scan events, in insertion order
    variant,       \* "numeric" (queries.py) or "timestamp" (queries_cplex.py)
    stage,         \* how far the request has come: "store", "orders", "downtimes"
    orders,        \* load_orders: work_order_number -> order record
    workstation_downtimes, \* store: the rows of workstation_downtimes
    present_time,  \* the run's present time (now), in minutes
    machine_downtimes,     \* load_downtimes: workstation -> list of [start, end]
    limit_work_orders,        \* queries.py LIMIT_WORK_ORDERS (allow-list mode)
    limit_work_order_numbers, \* queries.py LIMIT_WORK_ORDER_NUMBERS
    scope,         \* load_plan_scope: the scope of the request, None before
    queries,       \* the queries the request has executed on the store
    route_steps,   \* store: the rows of route_steps joined with routes
    employee_shift, \* _build_employee_shift: the shift block of the instance, None before
    schedule_file, \* main.py SCHEDULE_FILE: None while the file does not exist, else its text
    responses,     \* main.py: the schedule requests served so far, each with its response
    requests,      \* the planning requests in progress, each with its own tables
    reads          \* load_orders/load_downtimes: the rows each query of one request returned

pad_vars == <<bom_data, cycle, minibatch, pad_hist>>

store_vars == <<work_orders, barcode_events, workstation_downtimes, present_time>>

req_vars == <<variant, stage, orders, machine_downtimes>>

scope_vars == <<limit_work_orders, limit_work_order_numbers, scope, queries>>

aux_vars == <<schedule_file, responses, requests, reads>>

ext_vars == <<scope_vars, route_steps, employee_shift, aux_vars>>

vars == <<bom_data, cycle, minibatch, pad_hist, work_orders, barcode_events,
          workstation_downtimes, present_time, variant, stage, orders,
          machine_downtimes, limit_work_orders, limit_work_order_numbers,
          scope, queries, route_steps, employee_shift, schedule_file,
          responses, requests, reads>>

-----------------------------------------------------------------------------
(* Bounds of the model.                                                    *)

MaxLen == 5            \* longest route (steps of one route in the store)
MaxRouteSteps == 9     \* route_steps rows the route query returns
MaxCapacityRows == 1   \* rows the cycle and minimum-batch queries return
MaxPadRuns == 2        \* runs of the normalizer on the same tables
MaxEvents == 2         \* rows of barcode_events
MaxTime == 2           \* latest instant of the store and of present time, in minutes
MaxDowntimeRows == 2   \* rows of workstation_downtimes
MaxRouteStepRows == 3   \* route_steps rows of the store

Products == {"P1", "P2"}
RouteIds == {1, 2}     \* routes of one product in the store
WorkOrders == {"WO-1", "WO-2"}
Variants == {"numeric", "timestamp"}

-----------------------------------------------------------------------------
(* Configuration constants, queries.py lines 12-24.                        *)

TIME_UNIT_SECONDS == 60

FAKE_WORKSTATION_CODE == "FAKE"

FAKE_CYCLE_TIME_MODEL == 1     \* 0.01 model time units, in hundredths

FAKE_MINIBATCH_QTY == 100

\* Workstation codes of capacity rows in the store; the store does not
\* forbid a workstation whose code is the sentinel.
CapacityWorkstations == {"M1", FAKE_WORKSTATION_CODE}

\* std_cycle_time_s_per_uom values of the store (seconds per unit).
StdCycleSeconds == {120}

\* min_batch_qty values of the store.
MinBatchQtys == {0, 50}

\* The workstation of the k-th step of a route in the store.
StepWorkstation(k) == IF k % 2 = 1 THEN "M1" ELSE "M2"

\* A nullable column: None, or Some(x).
None == <<>>

Some(x) == <<x>>

\* work_orders.status of the work orders the scope query selects
\* (wo.status IN ('NOT_STARTED', 'IN_PROGRESS')).
ScopeStatuses == {"NOT_STARTED", "IN_PROGRESS"}

\* barcode_events.event_type as stored (any letter case).
EventTypes == {"START", "start", "COMPLETE"}

\* barcode_events.route_step_index (1-based), nullable.
RouteStepIndexes == {None, Some(1), Some(2)}

\* workstation_code of the event's workstation (LEFT JOIN: nullable).
EventWorkstations == {None, Some("M7")}

\* workstation_code of the workstations that have downtime rows.
DowntimeWorkstations == {"M3"}

\* downtime_start / downtime_end, nullable, in minutes.
DowntimeInstants == {None} \cup {Some(t) : t \in 0..MaxTime}

-----------------------------------------------------------------------------
(* Generic helpers.                                                        *)

EmptyMap == [x \in {} |-> 0]

Max(S) == CHOOSE x \in S : \A y \in S : y <= x

\* [x] * n
Repeat(x, n) == [i \in 1..n |-> x]

\* dict.setdefault(k, v) on a flat map
SetDefault(f, k, v) == IF k \in DOMAIN f THEN f ELSE f @@ (k :> v)

\* d[k] = v
Assign(f, k, v) == [x \in (DOMAIN f) \cup {k} |-> IF x = k THEN v ELSE f[x]]

-----------------------------------------------------------------------------
(* Capacity/route structure builders: one action per row of the loop.      *)

\* std_cycle_s / TIME_UNIT_SECONDS, in hundredths of a model time unit
std_cycle_model(std_cycle_s) == (std_cycle_s * 100) \div TIME_UNIT_SECONDS

\* load_bom_structure: path.append(ws_code), a new route id opening a path
LoadBomRow(p, newRoute) ==
    /\ pad_hist = <<>>
    /\ LET routes == IF p \in DOMAIN bom_data THEN bom_data[p] ELSE <<>>
           steps == LET RECURSIVE Sum(_)
                        Sum(S) == IF S = {} THEN 0
                                  ELSE LET q == CHOOSE q \in S : TRUE
                                       IN  Len(bom_data[q[1]][q[2]]) + Sum(S \ {q})
                    IN  Sum({<<q, i>> \in (DOMAIN bom_data) \X RouteIds :
                               i \in DOMAIN bom_data[q]})
       IN  /\ steps < MaxRouteSteps
           /\ IF newRoute \/ routes = <<>>
              THEN /\ Len(routes) < Cardinality(RouteIds)
                   /\ bom_data' = Assign(bom_data, p,
                                         Append(routes, <<StepWorkstation(1)>>))
              ELSE LET last == routes[Len(routes)] IN
                   /\ Len(last) < MaxLen
                   /\ bom_data' = Assign(bom_data, p,
                        [routes EXCEPT ![Len(routes)] =
                            Append(last, StepWorkstation(Len(last) + 1))])
    /\ UNCHANGED <<cycle, minibatch, pad_hist, store_vars, req_vars, ext_vars>>

CapacityRows == Cardinality(DOMAIN cycle) + Cardinality(DOMAIN minibatch)

\* load_cycle_structure: cycle[process_idx][product][ws] = std_cycle_model
LoadCycleRow(sequence_index, p, ws, std_cycle_s) ==
    /\ pad_hist = <<>>
    /\ CapacityRows < MaxCapacityRows
    /\ cycle' = Assign(cycle, <<sequence_index - 1, p, ws>>,
                       std_cycle_model(std_cycle_s))
    /\ UNCHANGED <<bom_data, minibatch, pad_hist, store_vars, req_vars, ext_vars>>

\* load_minibatch_structure: the query keeps min_batch_qty > 0 only
LoadMinibatchRow(p, ws, min_batch_qty) ==
    /\ pad_hist = <<>>
    /\ CapacityRows < MaxCapacityRows
    /\ min_batch_qty > 0
    /\ minibatch' = Assign(minibatch, <<p, ws>>, min_batch_qty)
    /\ UNCHANGED <<bom_data, cycle, pad_hist, store_vars, req_vars, ext_vars>>

-----------------------------------------------------------------------------
(* Route normalizer: _pad_boms_and_inject_fake_defaults_sparse.            *)

\* max_len taken one too large
max_len_off_by_one(routes) ==
    IF routes = <<>> THEN 0 ELSE Max({Len(routes[i]) : i \in DOMAIN routes}) + 1

\* max_len = max(lengths, default=0)
max_len(routes) ==
    IF routes = <<>> THEN 0 ELSE Max({Len(routes[i]) : i \in DOMAIN routes})

\* pad_n taken one too small
pad_route_short(route, mx, fake_ws) ==
    IF Len(route) >= mx THEN route
    ELSE route \o Repeat(fake_ws, mx - Len(route) - 1)

\* the sentinel codes put in front of the route
pad_route_prepend(route, mx, fake_ws) ==
    IF Len(route) >= mx THEN route
    ELSE Repeat(fake_ws, mx - Len(route)) \o route

\* routes[i] = route + [fake_ws] * pad_n, for orig_len < max_len only
pad_route(route, mx, fake_ws) ==
    IF Len(route) >= mx THEN route
    ELSE route \o Repeat(fake_ws, mx - Len(route))

\* range(0, max_len) instead of range(orig_len, max_len)
padded_process_indices_from_zero(routes, mx) ==
    UNION {0..(mx - 1) : i \in {j \in DOMAIN routes : Len(routes[j]) < mx}}

\* padded_process_indices: range(orig_len, max_len) of every shorter route
padded_process_indices(routes, mx) ==
    UNION {Len(routes[i])..(mx - 1) : i \in DOMAIN routes}

\* the flag set whether or not a route was padded
any_padding_always(routes, mx) == TRUE

\* any_padding_for_product
any_padding_for_product(routes, mx) == \E i \in DOMAIN routes : Len(routes[i]) < mx

\* the minimum-batch default left out
inject_minibatch_skipped(mb, p, fake_ws, fake_minibatch) == mb

\* minibatch.setdefault(product, {}); minibatch[product].setdefault(fake_ws, ...)
inject_minibatch(mb, p, fake_ws, fake_minibatch) ==
    SetDefault(mb, <<p, fake_ws>>, fake_minibatch)

\* the 1-based sequence position used as process index
inject_cycle_one_based(cyc, p, idxs, fake_ws, fake_cycle_model) ==
    [k \in (DOMAIN cyc) \cup {<<i + 1, p, fake_ws>> : i \in idxs} |->
        IF k \in DOMAIN cyc THEN cyc[k] ELSE fake_cycle_model]

\* the default assigned whether or not the entry is there
inject_cycle_overwrite(cyc, p, idxs, fake_ws, fake_cycle_model) ==
    [k \in (DOMAIN cyc) \cup {<<i, p, fake_ws>> : i \in idxs} |->
        IF k \in {<<i, p, fake_ws>> : i \in idxs} THEN fake_cycle_model ELSE cyc[k]]

\* for process_idx in sorted(padded): cycle[idx][product].setdefault(fake_ws, ...)
inject_cycle(cyc, p, idxs, fake_ws, fake_cycle_model) ==
    [k \in (DOMAIN cyc) \cup {<<i, p, fake_ws>> : i \in idxs} |->
        IF k \in DOMAIN cyc THEN cyc[k] ELSE fake_cycle_model]

\* the body of "for product_code, routes in bom_data.items()"
pad_product(t, p) ==
    LET routes == t.bom[p]
        mx == max_len(routes)
    IN  IF routes = <<>> \/ mx <= 0 THEN t
        ELSE LET padded == [i \in DOMAIN routes |->
                                pad_route(routes[i], mx, FAKE_WORKSTATION_CODE)]
                 withRoutes == [t EXCEPT !.bom[p] = padded]
             IN  IF ~any_padding_for_product(routes, mx) THEN withRoutes
                 ELSE [withRoutes EXCEPT
                         !.minibatch = inject_minibatch(t.minibatch, p,
                                          FAKE_WORKSTATION_CODE, FAKE_MINIBATCH_QTY),
                         !.cycle = inject_cycle(t.cycle, p,
                                          padded_process_indices(routes, mx),
                                          FAKE_WORKSTATION_CODE, FAKE_CYCLE_TIME_MODEL)]

RECURSIVE pad_products(_, _)
pad_products(t, S) ==
    IF S = {} THEN t
    ELSE LET p == CHOOSE p \in S : TRUE
         IN  pad_products(pad_product(t, p), S \ {p})

pad_boms_and_inject_fake_defaults_sparse(t) == pad_products(t, DOMAIN t.bom)

Tables == [bom |-> bom_data, cycle |-> cycle, minibatch |-> minibatch]

\* get_planner_input: the normalizer mutates the three tables in place
Normalize ==
    /\ Len(pad_hist) < MaxPadRuns
    /\ LET t == pad_boms_and_inject_fake_defaults_sparse(Tables)
       IN  /\ bom_data' = t.bom
           /\ cycle' = t.cycle
           /\ minibatch' = t.minibatch
    /\ pad_hist' = Append(pad_hist, Tables)
    /\ UNCHANGED <<store_vars, req_vars, ext_vars>>

-----------------------------------------------------------------------------
(* Order state reconciler: load_orders of both variants.                   *)

\* float(dt.timestamp()): seconds
timestamp(minutes) == minutes * 60

\* _isoformat(value): the UTC instant as text
isoformat(centiminutes) == [utc |-> centiminutes]

\* str.upper() on the strings of the store
Upper(str) ==
    CASE str = "start" -> "START"
      [] str = "complete" -> "COMPLETE"
      [] str = "in_progress" -> "IN_PROGRESS"
      [] str = "not_started" -> "NOT_STARTED"
      [] OTHER -> str

\* the store writes a scan event (the MES does, not this program)
ScanEvent(wo, event_type, route_step_index, workstation_code) ==
    /\ stage = "store"
    /\ Len(barcode_events) < MaxEvents
    /\ barcode_events' = Append(barcode_events,
          [work_order_number |-> wo,
           event_type |-> event_type,
           route_step_index |-> route_step_index,
           workstation_code |-> workstation_code,
           produced_qty |-> None,
           event_time_utc |-> Len(barcode_events) + 1])
    /\ UNCHANGED <<pad_vars, work_orders, workstation_downtimes, present_time,
                   req_vars, ext_vars>>

\* the store writes a scan event with its time and its produced quantity
RecordEvent(wo, event_type, route_step_index, workstation_code, produced_qty, event_time_utc) ==
    /\ stage = "store"
    /\ Len(barcode_events) < MaxEvents
    /\ \A i \in DOMAIN barcode_events :
          barcode_events[i].event_time_utc < event_time_utc
    /\ barcode_events' = Append(barcode_events,
          [work_order_number |-> wo,
           event_type |-> event_type,
           route_step_index |-> route_step_index,
           workstation_code |-> workstation_code,
           produced_qty |-> produced_qty,
           event_time_utc |-> event_time_utc])
    /\ UNCHANGED <<pad_vars, work_orders, workstation_downtimes, present_time,
                   req_vars, ext_vars>>

\* SELECT DISTINCT ON (wo.work_order_number) ... ORDER BY wo.work_order_number,
\* be.event_time_utc DESC: the latest of the events of each work order.  The
\* result maps a work order number to its row.
latest_event_by_wo(events) ==
    LET of(wo) == {i \in DOMAIN events : events[i].work_order_number = wo}
    IN  [wo \in {w \in WorkOrders : of(w) # {}} |->
            events[CHOOSE i \in of(wo) :
                      \A j \in of(wo) :
                          events[j].event_time_utc <= events[i].event_time_utc]]

\* the 1-based step taken as the number of markers
past_machines_one_marker_more(row) ==
    IF row.workstation_code = None \/ row.route_step_index = None THEN <<>>
    ELSE Repeat("EMPTY", row.route_step_index[1]) \o <<row.workstation_code[1]>>

\* past_machines_by_wo[wo_num] = ["EMPTY"] * max(0, step - 1) + [ws]
past_machines(row) ==
    IF row.workstation_code = None \/ row.route_step_index = None THEN <<>>
    ELSE LET step_i == row.route_step_index[1]
             n_empty == IF step_i - 1 > 0 THEN step_i - 1 ELSE 0
         IN  Repeat("EMPTY", n_empty) \o <<row.workstation_code[1]>>

Resolvable(e) == e.workstation_code # None /\ e.route_step_index # None

\* the trail taken from the latest of the events that have a workstation
\* and a step
past_machines_by_wo_latest_resolvable(events) ==
    LET rows == latest_event_by_wo(SelectSeq(events, Resolvable))
    IN  [wo \in DOMAIN rows |-> past_machines(rows[wo])]

\* past_machines_by_wo: one entry per work order that has an event, from the
\* row of its latest event
past_machines_by_wo(events) ==
    LET rows == latest_event_by_wo(events)
    IN  [wo \in DOMAIN rows |-> past_machines(rows[wo])]

\* last_event_by_wo[wo_num] = (row["event_type"] or "").upper()
last_event_by_wo(events) ==
    LET rows == latest_event_by_wo(events)
    IN  [wo \in DOMAIN rows |-> Upper(rows[wo].event_type)]

IsComplete(e) == Upper(e.event_type) = "COMPLETE"

\* last_complete_qty_by_wo (timestamp variant): the latest COMPLETE event's
\* produced_qty, when it is not null
last_complete_qty_by_wo(events) ==
    LET rows == latest_event_by_wo(SelectSeq(events, IsComplete))
    IN  [wo \in {w \in DOMAIN rows : rows[w].produced_qty # None} |->
            rows[wo].produced_qty[1]]

\* the downgrade left out: the stored status reported as it is
derived_status_as_stored(status, trail) == status

\* progress = status; IN_PROGRESS without past machines becomes NOT_STARTED
derived_status(status, trail) ==
    IF status = "IN_PROGRESS" /\ trail = <<>> THEN "NOT_STARTED" ELSE status

\* the running flag taken from the last event alone
currently_running_event_only(progress, last_event, wo) ==
    wo \in DOMAIN last_event /\ last_event[wo] = "START"

\* (progress == "IN_PROGRESS") and (last_event_by_wo.get(wo_num) == "START")
currently_running(progress, last_event, wo) ==
    /\ progress = "IN_PROGRESS"
    /\ wo \in DOMAIN last_event
    /\ last_event[wo] = "START"

\* SELECT be.work_order_id, MAX(be.event_time_utc) ... GROUP BY
\* be.work_order_id: the time of the latest event of each work order
latest_event_time_by_wo(events) ==
    LET rows == latest_event_by_wo(events)
    IN  [wo \in DOMAIN rows |-> rows[wo].event_time_utc]

\* an anchor before present time raised whatever the status
minimum_production_time_raise_all(v, status, min_prod_dt, latest, wo, now) ==
    LET anchored == IF status = "IN_PROGRESS" /\ wo \in DOMAIN latest
                    THEN Some(latest[wo])
                    ELSE min_prod_dt
    IN  IF v = "timestamp"
        THEN IF anchored = None THEN isoformat(now * 100)
             ELSE IF anchored[1] < now THEN isoformat(now * 100)
             ELSE isoformat(anchored[1] * 100)
        ELSE IF anchored = None THEN 0 ELSE timestamp(anchored[1])

\* "Minimum Production Time": the stored anchor, the time of the latest
\* event for a work order stored IN_PROGRESS; numeric: seconds, 0.0 without
\* anchor; timestamp: present time without anchor, and instead of an anchor
\* before present time unless the stored status is IN_PROGRESS
minimum_production_time(v, status, min_prod_dt, latest, wo, now) ==
    LET anchored == IF status = "IN_PROGRESS" /\ wo \in DOMAIN latest
                    THEN Some(latest[wo])
                    ELSE min_prod_dt
    IN  IF v = "timestamp"
        THEN IF anchored = None THEN isoformat(now * 100)
             ELSE IF anchored[1] < now /\ status # "IN_PROGRESS"
                  THEN isoformat(now * 100)
             ELSE isoformat(anchored[1] * 100)
        ELSE IF anchored = None THEN 0 ELSE timestamp(anchored[1])

\* the produced quantity taken in the numeric variant too
order_quantity_both_variants(v, progress, complete_qty, wo, qty_planned) ==
    IF progress = "IN_PROGRESS" /\ wo \in DOMAIN complete_qty
    THEN complete_qty[wo]
    ELSE qty_planned

\* "Quantity": numeric: qty_planned; timestamp: qty = qty_planned, and for
\* progress IN_PROGRESS last_complete_qty_by_wo.get(wo_num, qty_planned)
order_quantity(v, progress, complete_qty, wo, qty_planned) ==
    IF v = "timestamp" /\ progress = "IN_PROGRESS" /\ wo \in DOMAIN complete_qty
    THEN complete_qty[wo]
    ELSE qty_planned

\* SELECT r.product_id, MAX(rs.sequence_index) ... GROUP BY r.product_id;
\* last_process_by_product[pid] = int(last_proc) - 1
last_process_by_product(steps, product_ids) ==
    LET of(p) == {r \in steps : r.product_code = p}
    IN  [p \in {q \in product_ids : of(q) # {}} |->
            Max({r.sequence_index : r \in of(p)}) - 1]

\* one iteration of "for wo_id in work_order_ids" of load_orders
order_record(v, wo, base, events, now, last_process) ==
    LET trails == past_machines_by_wo(events)
        last_event == last_event_by_wo(events)
        complete_qty == last_complete_qty_by_wo(events)
        \* numeric: (status or "").strip().upper(); timestamp: (status or "").upper()
        status == Upper(base.status)
        trail == IF wo \in DOMAIN trails THEN trails[wo] ELSE <<>>
        \* timestamp: progress = status or "NOT_STARTED"
        progress0 == IF v = "timestamp" /\ status = "" THEN "NOT_STARTED" ELSE status
        progress == derived_status(progress0, trail)
        qty == order_quantity(v, progress, complete_qty, wo, base.qty_planned)
    IN  [Product |-> base.product_code,
         Quantity |-> qty,
         LastProcess |-> IF base.product_code \in DOMAIN last_process
                         THEN Some(last_process[base.product_code])
                         ELSE None,
         MinimumProductionTime |->
             minimum_production_time(v, status, base.min_prod_time,
                                     latest_event_time_by_wo(events), wo, now),
         Status |-> progress,
         PastMachines |-> trail,
         CurrentlyRunning |-> currently_running(progress, last_event, wo)]

\* load_orders: the order records of the work orders in scope
load_orders(v, wos, events, now, steps) ==
    LET product_ids == {wos[wo].product_code : wo \in DOMAIN wos}
        last_process == last_process_by_product(steps, product_ids)
    IN  [wo \in DOMAIN wos |->
            order_record(v, wo, wos[wo], events, now, last_process)]

\* get_planner_input / get_planner_input_cplex: orders = load_orders(...)
LoadOrders(v) ==
    /\ stage = "store"
    /\ variant' = v
    /\ orders' = load_orders(v, work_orders, barcode_events, present_time,
                            route_steps)
    /\ stage' = "orders"
    /\ UNCHANGED <<pad_vars, store_vars, machine_downtimes, ext_vars>>

-----------------------------------------------------------------------------
(* Downtime/availability deriver: load_downtimes of both variants and      *)
(* _append_running_job_downtimes.  Instants of the store are minutes; the  *)
(* numeric variant reports seconds, the timestamp variant ISO strings,     *)
(* modelled as records of hundredths of a minute.                          *)

WsRank(ws) == CASE ws = "M1" -> 1 [] ws = "M2" -> 2 [] ws = "M3" -> 3
                [] ws = "M7" -> 4 [] OTHER -> 5

WoRank(wo) == CASE wo = "WO-1" -> 1 [] wo = "WO-2" -> 2 [] OTHER -> 3

\* the store writes a downtime row (not this program)
InsertDowntime(ws, downtime_start, downtime_end) ==
    /\ stage = "store"
    /\ Cardinality(workstation_downtimes) < MaxDowntimeRows
    /\ workstation_downtimes' = workstation_downtimes \cup
          {[workstation_code |-> ws,
            downtime_start |-> downtime_start,
            downtime_end |-> downtime_end]}
    /\ workstation_downtimes' # workstation_downtimes
    /\ UNCHANGED <<pad_vars, work_orders, barcode_events, present_time, req_vars, ext_vars>>

\* ORDER BY w.workstation_code, d.downtime_start (NULLs last): a before b
OrderedBefore(a, b) ==
    \/ WsRank(a.workstation_code) < WsRank(b.workstation_code)
    \/ /\ a.workstation_code = b.workstation_code
       /\ \/ b.downtime_start = None
          \/ /\ a.downtime_start # None
             /\ a.downtime_start[1] <= b.downtime_start[1]

\* the orders in which the downtime query may return the rows
downtime_query(rows) ==
    LET n == Cardinality(rows)
    IN  {q \in [1..n -> rows] :
            /\ \A i, j \in 1..n : i # j => q[i] # q[j]
            /\ \A i, j \in 1..n : i < j => OrderedBefore(q[i], q[j])}

\* downtimes.setdefault(ws_code, []).append(window)
append_window(downtimes, ws, window) ==
    Assign(downtimes, ws,
           Append(IF ws \in DOMAIN downtimes THEN downtimes[ws] ELSE <<>>, window))

\* the check of the end against now left out
keep_downtime_no_end_check(v, row, now) ==
    /\ row.downtime_start # None
    /\ row.downtime_end # None
    /\ v = "timestamp" => ~(row.downtime_start[1] < now)

\* the "continue" tests of the loop: a row is kept when none applies
keep_downtime(v, row, now) ==
    /\ row.downtime_start # None
    /\ row.downtime_end # None
    /\ ~(row.downtime_end[1] < now)
    /\ v = "timestamp" => ~(row.downtime_start[1] < now)

\* the [start, end] pair appended for a kept row
downtime_window(v, row) ==
    IF v = "timestamp"
    THEN <<isoformat(row.downtime_start[1] * 100), isoformat(row.downtime_end[1] * 100)>>
    ELSE <<timestamp(row.downtime_start[1]), timestamp(row.downtime_end[1])>>

\* the rows of the store left unread
explicit_downtimes_none(v, rows, now, downtimes) == downtimes

\* "for row in rows" of load_downtimes
RECURSIVE explicit_downtimes(_, _, _, _)
explicit_downtimes(v, rows, now, downtimes) ==
    IF rows = <<>> THEN downtimes
    ELSE LET row == Head(rows)
             next == IF keep_downtime(v, row, now)
                     THEN append_window(downtimes, row.workstation_code,
                                        downtime_window(v, row))
                     ELSE downtimes
         IN  explicit_downtimes(v, Tail(rows), now, next)

\* the elapsed minutes left out: the whole expected time projected
running_job_window_full_expected(row, now, ords, cyc) ==
    IF \/ Upper(row.event_type) # "START"
       \/ row.workstation_code = None
       \/ row.work_order_number \notin DOMAIN ords
       \/ row.route_step_index = None
    THEN {}
    ELSE LET order == ords[row.work_order_number]
             key == <<row.route_step_index[1] - 1, order.Product,
                      row.workstation_code[1]>>
         IN  IF key \notin DOMAIN cyc THEN {}
             ELSE {<<isoformat(now * 100),
                     isoformat(now * 100 + order.Quantity * cyc[key])>>}

\* the elapsed minutes not clamped at zero
running_job_window_unclamped(row, now, ords, cyc) ==
    IF \/ Upper(row.event_type) # "START"
       \/ row.workstation_code = None
       \/ row.work_order_number \notin DOMAIN ords
       \/ row.route_step_index = None
    THEN {}
    ELSE LET order == ords[row.work_order_number]
             key == <<row.route_step_index[1] - 1, order.Product,
                      row.workstation_code[1]>>
         IN  IF key \notin DOMAIN cyc THEN {}
             ELSE LET time_left == order.Quantity * cyc[key]
                                   - (now - row.event_time_utc) * 100
                  IN  IF time_left <= 0 THEN {}
                      ELSE {<<isoformat(now * 100),
                              isoformat(now * 100 + time_left)>>}

\* one row of _append_running_job_downtimes: the window it appends, as a
\* set (empty when the row is skipped)
running_job_window(row, now, ords, cyc) ==
    IF \/ Upper(row.event_type) # "START"
       \/ row.workstation_code = None
       \/ row.work_order_number \notin DOMAIN ords
       \/ row.route_step_index = None
    THEN {}
    ELSE LET order == ords[row.work_order_number]
             ws_code == row.workstation_code[1]
             proc_idx == row.route_step_index[1] - 1
             key == <<proc_idx, order.Product, ws_code>>
         IN  IF key \notin DOMAIN cyc THEN {}
             ELSE LET expected == order.Quantity * cyc[key]
                      elapsed == (now - row.event_time_utc) * 100
                      running == IF elapsed > 0 THEN elapsed ELSE 0
                      time_left == expected - running
                  IN  IF time_left <= 0 THEN {}
                      ELSE {<<isoformat(now * 100),
                              isoformat(now * 100 + time_left)>>}

\* "for row in rows" of _append_running_job_downtimes, rows ordered by
\* work order number
RECURSIVE append_running_rows(_, _, _, _, _)
\* a row that cannot be completed ends the loop
append_running_rows_abort_on_skip(rows, now, ords, cyc, downtimes) ==
    IF DOMAIN rows = {} THEN downtimes
    ELSE LET wo == CHOOSE w \in DOMAIN rows :
                      \A x \in DOMAIN rows : WoRank(w) <= WoRank(x)
             win == running_job_window(rows[wo], now, ords, cyc)
             rest == [x \in DOMAIN rows \ {wo} |-> rows[x]]
         IN  IF win = {} THEN downtimes
             ELSE append_running_rows(rest, now, ords, cyc,
                      append_window(downtimes, rows[wo].workstation_code[1],
                                    CHOOSE w \in win : TRUE))

append_running_rows(rows, now, ords, cyc, downtimes) ==
    IF DOMAIN rows = {} THEN downtimes
    ELSE LET wo == CHOOSE w \in DOMAIN rows :
                      \A x \in DOMAIN rows : WoRank(w) <= WoRank(x)
             win == running_job_window(rows[wo], now, ords, cyc)
             next == IF win = {} THEN downtimes
                     ELSE append_window(downtimes, rows[wo].workstation_code[1],
                                        CHOOSE w \in win : TRUE)
             rest == [x \in DOMAIN rows \ {wo} |-> rows[x]]
         IN  append_running_rows(rest, now, ords, cyc, next)

InOrders(ords, e) == e.work_order_number \in DOMAIN ords

append_running_job_downtimes(now, ords, cyc, events, downtimes) ==
    IF DOMAIN ords = {} THEN downtimes
    ELSE LET known == SelectSeq(events, LAMBDA e : InOrders(ords, e))
         IN  append_running_rows(latest_event_by_wo(known),
                                 now, ords, cyc, downtimes)

\* load_downtimes on the rows in the order the query returned them
load_downtimes(v, rows, now, ords, cyc, events) ==
    LET explicit == explicit_downtimes(v, rows, now, EmptyMap)
    IN  IF v = "timestamp"
        THEN append_running_job_downtimes(now, ords, cyc, events, explicit)
        ELSE explicit

\* get_planner_input / get_planner_input_cplex:
\* machine_downtimes = load_downtimes(...)
LoadDowntimes ==
    /\ stage = "orders"
    /\ \E rows \in downtime_query(workstation_downtimes) :
          machine_downtimes' = load_downtimes(variant, rows, present_time,
                                              orders, cycle, barcode_events)
    /\ queries' = queries \cup {"workstation_downtimes"}
    /\ stage' = "downtimes"
    /\ UNCHANGED <<pad_vars, store_vars, variant, orders,
                   limit_work_orders, limit_work_order_numbers, scope,
                   route_steps, employee_shift, aux_vars>>

-----------------------------------------------------------------------------
(* Planning scope resolver: load_plan_scope (the same code in both         *)
(* variants) and the pipeline of get_planner_input on a resolved scope.    *)
(* A work order is identified by its number and a product by its code.     *)

Range(seq) == {seq[i] : i \in DOMAIN seq}

\* the list of the elements of a set of work orders, ORDER BY planned_start_at
\* (the store plans the work orders in the order of their numbers)
RECURSIVE planned_order(_)
planned_order(S) ==
    IF S = {} THEN <<>>
    ELSE LET wo == CHOOSE w \in S : \A x \in S : WoRank(w) <= WoRank(x)
         IN  <<wo>> \o planned_order(S \ {wo})

\* the WHERE clause of base_sql, with the allow-list condition when asked
scope_rows(wos, with_list, wo_numbers) ==
    {wo \in DOMAIN wos :
        /\ wos[wo].status \in {"NOT_STARTED", "IN_PROGRESS"}
        /\ wos[wo].product_group = "Mamul"
        /\ wos[wo].sales_order_id # None
        /\ with_list => wo \in Range(wo_numbers)}

empty_scope == [work_order_ids |-> <<>>, product_ids |-> {}, product_codes |-> {}]

\* the result of the loop over the rows of the scope query
scope_of_rows(wos, rows) ==
    [work_order_ids |-> planned_order(rows),
     product_ids |-> {wos[wo].product_code : wo \in rows},
     product_codes |-> {wos[wo].product_code : wo \in rows}]

\* an enabled allow-list applied even when it is empty never short-cuts; the
\* mode read as disabled on an empty list plans every eligible work order
load_plan_scope_empty_list_unrestricted(limit, wo_numbers, wos) ==
    scope_of_rows(wos, scope_rows(wos, limit /\ wo_numbers # <<>>, wo_numbers))

\* load_plan_scope: the scope it returns
load_plan_scope(limit, wo_numbers, wos) ==
    IF limit /\ wo_numbers = <<>> THEN empty_scope
    ELSE scope_of_rows(wos, scope_rows(wos, limit, wo_numbers))

\* the early return of load_plan_scope comes before session.execute
scope_query_executed(limit, wo_numbers) == ~(limit /\ wo_numbers = <<>>)

\* scope = load_plan_scope(session, tenant_id)
LoadPlanScope ==
    /\ stage = "store"
    /\ scope = None
    /\ scope' = Some(load_plan_scope(limit_work_orders, limit_work_order_numbers,
                                     work_orders))
    /\ queries' = IF scope_query_executed(limit_work_orders, limit_work_order_numbers)
                  THEN queries \cup {"work_orders"}
                  ELSE queries
    /\ stage' = "scope"
    /\ UNCHANGED <<pad_vars, store_vars, variant, orders, machine_downtimes,
                   limit_work_orders, limit_work_order_numbers, route_steps,
                   employee_shift, aux_vars>>

\* the rows of the store for the products of a scope, as the three loaders
\* shape them: a route over M3 and a route over M3 then M7 for every product,
\* with a capacity row on M3
store_structures(product_ids) ==
    [bom |-> [p \in product_ids |-> <<<<"M3">>, <<"M3", "M7">>>>],
     cycle |-> [k \in {<<0, p, "M3">> : p \in product_ids} |-> std_cycle_model(120)],
     minibatch |-> [k \in {<<p, "M3">> : p \in product_ids} |-> 50]]

empty_structures == [bom |-> EmptyMap, cycle |-> EmptyMap, minibatch |-> EmptyMap]

\* load_cycle_structure, load_minibatch_structure, load_bom_structure ("if
\* not product_ids: return {}" before their query) and the normalizer
LoadStructures ==
    /\ stage = "scope"
    /\ LET product_ids == scope[1].product_ids
           loaded == IF product_ids = {} THEN empty_structures
                     ELSE store_structures(product_ids)
           t == pad_boms_and_inject_fake_defaults_sparse(loaded)
       IN  /\ bom_data' = t.bom
           /\ cycle' = t.cycle
           /\ minibatch' = t.minibatch
           /\ queries' = IF product_ids = {} THEN queries
                         ELSE queries \cup {"capacity", "routes"}
    /\ stage' = "structures"
    /\ UNCHANGED <<pad_hist, store_vars, variant, orders, machine_downtimes,
                   limit_work_orders, limit_work_order_numbers, scope,
                   route_steps, employee_shift, aux_vars>>

\* orders = load_orders(session, tenant_id, scope): "if not work_order_ids:
\* return {}", else the records of the work orders of the scope
LoadScopedOrders(v) ==
    /\ stage = "structures"
    /\ variant' = v
    /\ LET ids == Range(scope[1].work_order_ids)
       IN  /\ orders' = IF ids = {} THEN EmptyMap
                        ELSE load_orders(v, [wo \in ids |-> work_orders[wo]],
                                         barcode_events, present_time,
                                         route_steps)
           /\ queries' = IF ids = {} THEN queries
                         ELSE queries \cup {"orders", "barcode_events"}
    /\ stage' = "orders"
    /\ UNCHANGED <<pad_vars, store_vars, machine_downtimes,
                   limit_work_orders, limit_work_order_numbers, scope,
                   route_steps, employee_shift, aux_vars>>

-----------------------------------------------------------------------------
(* The route table and Last Process from the route steps of the store.     *)

\* the store writes a step of a route (not this program); a step of a route
\* is identified by its sequence_index
InsertRouteStep(p, route_id, sequence_index, workstation_code) ==
    /\ stage = "store"
    /\ Cardinality(route_steps) < MaxRouteStepRows
    /\ \A r \in route_steps :
          ~(r.product_code = p /\ r.route_id = route_id
                /\ r.sequence_index = sequence_index)
    /\ \A r \in route_steps : r.route_id = route_id => r.product_code = p
    /\ route_steps' = route_steps \cup
          {[product_code |-> p, route_id |-> route_id,
            sequence_index |-> sequence_index,
            workstation_code |-> workstation_code]}
    /\ UNCHANGED <<pad_vars, store_vars, req_vars, scope_vars, employee_shift,
                   aux_vars>>

\* ORDER BY rs.sequence_index on the steps of one route: path.append(ws_code)
RECURSIVE route_path(_)
route_path(S) ==
    IF S = {} THEN <<>>
    ELSE LET r == CHOOSE x \in S : \A y \in S : x.sequence_index <= y.sequence_index
         IN  <<r.workstation_code[1]>> \o route_path(S \ {r})

\* ORDER BY r.id on the routes of one product: list(routes_dict.values())
RECURSIVE product_routes(_, _)
product_routes(rows, ids) ==
    IF ids = {} THEN <<>>
    ELSE LET id == CHOOSE x \in ids : \A y \in ids : x <= y
         IN  <<route_path({r \in rows : r.route_id = id})>>
                 \o product_routes(rows, ids \ {id})

\* load_bom_structure: the steps joined with a workstation that has a code,
\* of the products of the scope
load_bom_structure(steps, product_ids) ==
    LET rows == {r \in steps : r.product_code \in product_ids
                                  /\ r.workstation_code # None}
        of(p) == {r \in rows : r.product_code = p}
    IN  [p \in {r.product_code : r \in rows} |->
            product_routes(of(p), {r.route_id : r \in of(p)})]

\* get_planner_input: bom_data = load_bom_structure(...), the normalizer,
\* orders = load_orders(...)
LoadRoutesAndOrders(v) ==
    /\ stage = "store"
    /\ LET product_ids == {work_orders[wo].product_code : wo \in DOMAIN work_orders}
           loaded == [bom |-> load_bom_structure(route_steps, product_ids),
                      cycle |-> cycle, minibatch |-> minibatch]
           t == pad_boms_and_inject_fake_defaults_sparse(loaded)
       IN  /\ bom_data' = t.bom
           /\ cycle' = t.cycle
           /\ minibatch' = t.minibatch
           /\ pad_hist' = <<loaded>>
    /\ variant' = v
    /\ orders' = load_orders(v, work_orders, barcode_events, present_time,
                             route_steps)
    /\ stage' = "orders"
    /\ UNCHANGED <<store_vars, machine_downtimes, ext_vars>>

-----------------------------------------------------------------------------
(* Employee shift block: _build_employee_shift.  Present time is counted   *)
(* in minutes from the midnight of a first day.                            *)

MinutesPerDay == 24 * 60

\* present_time.replace(hour=h, minute=m, second=0, microsecond=0)
replace_time(present, hour, minute) ==
    (present \div MinutesPerDay) * MinutesPerDay + hour * 60 + minute

build_employee_shift(present) ==
    LET day_end == replace_time(present, 19, 30)
        night_end == replace_time(present, 7, 30)
        first_shift_end == IF present <= night_end THEN night_end
                           ELSE IF present <= day_end THEN day_end
                           ELSE night_end + MinutesPerDay
    IN  [first_shift_end |-> isoformat(first_shift_end * 100),
         day_shift_end |-> "19:30",
         night_shift_end |-> "07:30",
         frequency |-> 720]

\* get_planner_input_cplex: "employee_shift": _build_employee_shift(now)
BuildEmployeeShift ==
    /\ employee_shift = None
    /\ employee_shift' = Some(build_employee_shift(present_time))
    /\ UNCHANGED <<pad_vars, store_vars, req_vars, scope_vars, route_steps,
                   aux_vars>>

-----------------------------------------------------------------------------

PadInit ==
    /\ bom_data = EmptyMap
    /\ cycle = EmptyMap
    /\ minibatch = EmptyMap
    /\ pad_hist = <<>>

ReqInit ==
    /\ variant = "none"
    /\ stage = "store"
    /\ orders = EmptyMap
    /\ machine_downtimes = EmptyMap

\* outside load_plan_scope: no allow-list, no scope resolved, no query logged
\* no schedule file, no request served or in progress
AuxInit ==
    /\ schedule_file = None
    /\ responses = <<>>
    /\ requests = <<>>
    /\ reads = None

ExtInit ==
    /\ limit_work_orders = FALSE
    /\ limit_work_order_numbers = <<>>
    /\ scope = None
    /\ queries = {}
    /\ route_steps = {}
    /\ employee_shift = None
    /\ AuxInit

\* the store before the request: no scan events, no work orders
EmptyStore ==
    /\ work_orders = EmptyMap
    /\ barcode_events = <<>>
    /\ workstation_downtimes = {}
    /\ present_time = 0

\* work orders in scope, each with a stored status
WorkOrderRows ==
    [WorkOrders -> [status : ScopeStatuses, product_code : {"P1"}, qty_planned : {2},
                    min_prod_time : {None}]]

Init == PadInit /\ EmptyStore /\ ReqInit /\ ExtInit

PadNext ==
    \/ \E p \in Products, newRoute \in BOOLEAN : LoadBomRow(p, newRoute)
    \/ \E i \in 1..MaxLen, p \in Products, ws \in CapacityWorkstations,
          s \in StdCycleSeconds : LoadCycleRow(i, p, ws, s)
    \/ \E p \in Products, ws \in CapacityWorkstations, q \in MinBatchQtys :
          LoadMinibatchRow(p, ws, q)
    \/ Normalize

Next == PadNext

\* the route normalizer on the tables the three loaders build
Spec == Init /\ [][Next]_vars

OrdersInit ==
    /\ PadInit
    /\ work_orders \in WorkOrderRows
    /\ barcode_events = <<>>
    /\ workstation_downtimes = {}
    /\ present_time = 0
    /\ ReqInit
    /\ ExtInit

OrdersNext ==
    \/ \E wo \in WorkOrders, t \in EventTypes, step \in RouteStepIndexes,
          ws \in EventWorkstations : ScanEvent(wo, t, step, ws)
    \/ \E v \in Variants : LoadOrders(v)

\* load_orders of both variants on a store of work orders and scan events
SpecOrders == OrdersInit /\ [][OrdersNext]_vars

\* a store for the downtime deriver: one work order, with or without a
\* START event on the workstation that has the downtime rows
DownEventLogs ==
    {<<>>,
     <<[work_order_number |-> "WO-1", event_type |-> "START",
        route_step_index |-> Some(1), workstation_code |-> Some("M3"),
        produced_qty |-> None, event_time_utc |-> 1]>>}

DownInit ==
    /\ bom_data = EmptyMap
    /\ cycle = (<<0, "P1", "M3">> :> std_cycle_model(120))
    /\ minibatch = EmptyMap
    /\ pad_hist = <<>>
    /\ work_orders \in [{"WO-1"} ->
          [status : ScopeStatuses, product_code : {"P1"}, qty_planned : {2},
           min_prod_time : {None}]]
    /\ barcode_events \in DownEventLogs
    /\ workstation_downtimes = {}
    /\ present_time \in 0..MaxTime
    /\ ReqInit
    /\ ExtInit

DownNext ==
    \/ \E ws \in DowntimeWorkstations, a \in DowntimeInstants, b \in DowntimeInstants :
          InsertDowntime(ws, a, b)
    \/ \E v \in Variants : LoadOrders(v)
    \/ LoadDowntimes

\* load_orders, then load_downtimes, of both variants
SpecDown == DownInit /\ [][DownNext]_vars

\* a store for the running-job inference: two work orders of one product,
\* scan events at minute 0 and minute 70 on two workstations, a unit cycle
\* time of one hour (so that two units are expected to take 120 minutes)
InferEventTimes == {0, 70}

InferPresentTimes == {50, 120, 130}

InferWorkstations == {"M3", "M7"}

InferEventTypes == {"START", "COMPLETE"}

InferSteps == {None, Some(1)}

InferCycleTables ==
    {(<<0, "P1", "M3">> :> std_cycle_model(3600)),
     (<<0, "P1", "M3">> :> std_cycle_model(3600))
        @@ (<<0, "P1", "M7">> :> std_cycle_model(3600))}

\* no explicit downtime, or one planned for M3 after every present time
InferDowntimeRows ==
    {{}, {[workstation_code |-> "M3", downtime_start |-> Some(200),
           downtime_end |-> Some(260)]}}

InferInit ==
    /\ bom_data = EmptyMap
    /\ cycle \in InferCycleTables
    /\ minibatch = EmptyMap
    /\ pad_hist = <<>>
    /\ work_orders \in WorkOrderRows
    /\ barcode_events = <<>>
    /\ workstation_downtimes \in InferDowntimeRows
    /\ present_time \in InferPresentTimes
    /\ ReqInit
    /\ ExtInit

InferNext ==
    \/ \E wo \in WorkOrders, t \in InferEventTypes, step \in InferSteps,
          ws \in InferWorkstations, at \in InferEventTimes :
          RecordEvent(wo, t, step, Some(ws), None, at)
    \/ LoadOrders("timestamp")
    \/ LoadDowntimes

\* get_planner_input_cplex: load_orders, then load_downtimes with
\* _append_running_job_downtimes
SpecInfer == InferInit /\ [][InferNext]_vars

\* the store of the scope resolver: work orders of every status, product
\* group and sales-order link
StoreStatuses == {"NOT_STARTED", "IN_PROGRESS", "COMPLETED"}

ProductGroups == {"Mamul", "Hammadde"}

SalesOrderIds == {None, Some(1)}

StoreWorkOrderRows ==
    [WorkOrders -> [status : StoreStatuses, product_code : Products,
                    qty_planned : {2}, min_prod_time : {None},
                    product_group : ProductGroups,
                    sales_order_id : SalesOrderIds]]

\* LIMIT_WORK_ORDER_NUMBERS: empty, naming work orders of the store, or
\* naming none of them
AllowLists == {<<>>, <<"WO-1">>, <<"WO-9">>}

ScopeEventLogs == DownEventLogs

\* explicit downtime rows: none, one after present time, one before it
ScopeDowntimeRows ==
    {{},
     {[workstation_code |-> "M3", downtime_start |-> Some(2),
       downtime_end |-> Some(3)]},
     {[workstation_code |-> "M3", downtime_start |-> Some(0),
       downtime_end |-> Some(0)],
      [workstation_code |-> "M3", downtime_start |-> Some(2),
       downtime_end |-> Some(3)]}}

ScopeInit ==
    /\ PadInit
    /\ work_orders \in StoreWorkOrderRows
    /\ barcode_events \in ScopeEventLogs
    /\ workstation_downtimes \in ScopeDowntimeRows
    /\ present_time = 1
    /\ ReqInit
    /\ limit_work_orders \in BOOLEAN
    /\ limit_work_order_numbers \in AllowLists
    /\ scope = None
    /\ queries = {}
    /\ route_steps = {}
    /\ employee_shift = None
    /\ AuxInit

ScopeNext ==
    \/ LoadPlanScope
    \/ LoadStructures
    \/ \E v \in Variants : LoadScopedOrders(v)
    \/ LoadDowntimes

\* get_planner_input / get_planner_input_cplex from load_plan_scope on
SpecScope == ScopeInit /\ [][ScopeNext]_vars

\* a store for the anchors and quantities of the order records: work orders
\* with or without min_prod_time (before or after present time), scan events
\* before and after present time, COMPLETE events with or without produced_qty
AnchorInstants == {None, Some(0), Some(4)}

RecordEventTimes == {1, 3}

RecordEventTypes == {"START", "COMPLETE"}

RecordWorkstations == {None, Some("M3")}

ProducedQtys == {None, Some(1)}

RecordsInit ==
    /\ PadInit
    /\ work_orders \in [WorkOrders ->
          [status : ScopeStatuses, product_code : {"P1"}, qty_planned : {2},
           min_prod_time : AnchorInstants]]
    /\ barcode_events = <<>>
    /\ workstation_downtimes = {}
    /\ present_time = 2
    /\ ReqInit
    /\ ExtInit

RecordsNext ==
    \/ \E wo \in WorkOrders, t \in RecordEventTypes, ws \in RecordWorkstations,
          qty \in ProducedQtys, at \in RecordEventTimes :
          RecordEvent(wo, t, Some(1), ws, qty, at)
    \/ \E v \in Variants : LoadOrders(v)

\* load_orders of both variants on work orders with anchors and on scan
\* events with produced quantities
SpecRecords == RecordsInit /\ [][RecordsNext]_vars

\* the store of the routes: steps of up to two routes of P1 and P2, with or
\* without a workstation; the work orders of the scope are all of P1
SequenceIndexes == {1, 2, 3}

StepWorkstations == {None, Some("M3")}

RoutesInit ==
    /\ PadInit
    /\ work_orders \in WorkOrderRows
    /\ barcode_events = <<>>
    /\ workstation_downtimes = {}
    /\ present_time = 0
    /\ ReqInit
    /\ ExtInit

RoutesNext ==
    \/ \E p \in Products, id \in RouteIds, i \in SequenceIndexes,
          ws \in StepWorkstations : InsertRouteStep(p, id, i, ws)
    \/ \E v \in Variants : LoadRoutesAndOrders(v)

\* load_bom_structure and load_orders on the route steps of the store
SpecRoutes == RoutesInit /\ [][RoutesNext]_vars

\* present times over two days, minute by minute
MaxShiftDays == 2

ShiftInit ==
    /\ PadInit
    /\ work_orders = EmptyMap
    /\ barcode_events = <<>>
    /\ workstation_downtimes = {}
    /\ present_time \in 0..(MaxShiftDays * MinutesPerDay - 1)
    /\ ReqInit
    /\ ExtInit

ShiftNext == BuildEmployeeShift

\* _build_employee_shift on every present time
SpecShift == ShiftInit /\ [][ShiftNext]_vars

-----------------------------------------------------------------------------
(* Properties of the route normalizer.                                     *)

\* the tables as loaded, before the first run of the normalizer
Loaded == pad_hist[1]

Normalized == pad_hist # <<>>

RouteLengths(routes) == {Len(routes[i]) : i \in DOMAIN routes}

\* the length of the longest route of a product
Longest(routes) == Max(RouteLengths(routes))

NeedsPadding(bom, p) ==
    p \in DOMAIN bom /\ \E i \in DOMAIN bom[p] : Len(bom[p][i]) < Longest(bom[p])

NoSentinelLoaded ==
    /\ \A k \in DOMAIN Loaded.cycle : k[3] # FAKE_WORKSTATION_CODE
    /\ \A k \in DOMAIN Loaded.minibatch : k[2] # FAKE_WORKSTATION_CODE

\* C1: after the normalizer has run, every route of a product has the same
\* length, and that length is the longest length the product had before.
C1_EqualLengths ==
    Normalized =>
        /\ DOMAIN bom_data = DOMAIN Loaded.bom
        /\ \A p \in DOMAIN bom_data :
              /\ DOMAIN bom_data[p] = DOMAIN Loaded.bom[p]
              /\ \A i \in DOMAIN bom_data[p] :
                    Len(bom_data[p][i]) = Longest(Loaded.bom[p])

C1_Witness ==
    /\ Normalized
    /\ \E p \in DOMAIN Loaded.bom : Cardinality(RouteLengths(Loaded.bom[p])) > 1

\* C2: the normalizer is idempotent: a second run leaves the route table,
\* the cycle table and the minimum-batch table as the first run left them.
C2_Idempotent ==
    \A k \in 2..Len(pad_hist) : Tables = pad_hist[k]

C2_Witness ==
    /\ Len(pad_hist) >= 2
    /\ pad_hist[2] # pad_hist[1]
    /\ DOMAIN pad_hist[2].cycle # DOMAIN pad_hist[1].cycle

\* C3: when the loaded tables hold no sentinel entry, the cycle table after
\* normalization holds (idx, product, sentinel) only at indices at or beyond
\* the original length of a padded route of the product and below the
\* product's longest route.
C3_SentinelOnlyAtPadded ==
    (Normalized /\ NoSentinelLoaded) =>
        \A k \in DOMAIN cycle :
            k[3] = FAKE_WORKSTATION_CODE =>
                /\ k[2] \in DOMAIN Loaded.bom
                /\ \E i \in DOMAIN Loaded.bom[k[2]] :
                      /\ Len(Loaded.bom[k[2]][i]) < Longest(Loaded.bom[k[2]])
                      /\ Len(Loaded.bom[k[2]][i]) <= k[1]
                /\ k[1] < Longest(Loaded.bom[k[2]])

C3_Witness ==
    /\ Normalized
    /\ NoSentinelLoaded
    /\ \E k \in DOMAIN cycle : k[3] = FAKE_WORKSTATION_CODE /\ k[1] >= 2
    /\ DOMAIN Loaded.cycle # {}

CycleOf(cyc, p) == [k \in {x \in DOMAIN cyc : x[2] = p} |-> cyc[k]]

MinibatchOf(mb, p) == [k \in {x \in DOMAIN mb : x[1] = p} |-> mb[k]]

\* C4: a product none of whose routes is shorter than its longest route keeps
\* its routes, its cycle entries and its minimum-batch entries unchanged.
C4_NoPaddingNoSentinel ==
    Normalized =>
        \A p \in Products :
            ~NeedsPadding(Loaded.bom, p) =>
                /\ p \in DOMAIN Loaded.bom => bom_data[p] = Loaded.bom[p]
                /\ CycleOf(cycle, p) = CycleOf(Loaded.cycle, p)
                /\ MinibatchOf(minibatch, p) = MinibatchOf(Loaded.minibatch, p)

C4_Witness ==
    /\ Normalized
    /\ \E p, q \in Products :
          /\ p \in DOMAIN Loaded.bom
          /\ Len(Loaded.bom[p]) = 2
          /\ ~NeedsPadding(Loaded.bom, p)
          /\ NeedsPadding(Loaded.bom, q)

\* C5: a product with two routes of lengths m < n gets n - m sentinel codes
\* appended to the shorter route; when the loaded tables hold no sentinel
\* entry the cycle table gains the default sentinel cycle time at exactly the
\* indices m..n-1 of that product, and nothing for a product without padding.
C5_PadScenario ==
    Normalized =>
        \A p \in DOMAIN Loaded.bom :
            \A a, b \in DOMAIN Loaded.bom[p] :
                LET short == Loaded.bom[p][a]
                    long == Loaded.bom[p][b]
                    m == Len(short)
                    n == Len(long)
                IN  (Len(Loaded.bom[p]) = 2 /\ m < n) =>
                      /\ bom_data[p][a] = short \o Repeat(FAKE_WORKSTATION_CODE, n - m)
                      /\ bom_data[p][b] = long
                      /\ NoSentinelLoaded =>
                            /\ {k \in DOMAIN cycle : k[2] = p} \ DOMAIN Loaded.cycle
                                 = {<<i, p, FAKE_WORKSTATION_CODE>> : i \in m..(n - 1)}
                            /\ \A i \in m..(n - 1) :
                                  cycle[<<i, p, FAKE_WORKSTATION_CODE>>]
                                      = FAKE_CYCLE_TIME_MODEL
                            /\ \A k \in DOMAIN Loaded.cycle :
                                  k \in DOMAIN cycle /\ cycle[k] = Loaded.cycle[k]
                            /\ \A q \in Products \ {p} :
                                  ~NeedsPadding(Loaded.bom, q) =>
                                      {k \in DOMAIN cycle : k[2] = q}
                                          \subseteq DOMAIN Loaded.cycle

\* the scenario itself: routes of lengths 3 and 5
C5_Witness ==
    /\ Normalized
    /\ NoSentinelLoaded
    /\ "P1" \in DOMAIN Loaded.bom
    /\ Len(Loaded.bom["P1"]) = 2
    /\ Len(Loaded.bom["P1"][1]) = 3
    /\ Len(Loaded.bom["P1"][2]) = 5
    /\ "P2" \in DOMAIN Loaded.bom
    /\ <<3, "P1", FAKE_WORKSTATION_CODE>> \in DOMAIN cycle
    /\ <<4, "P1", FAKE_WORKSTATION_CODE>> \in DOMAIN cycle

-----------------------------------------------------------------------------
(* Properties of the order records.                                        *)

OrdersLoaded == stage # "store"

EventsOf(wo) == {i \in DOMAIN barcode_events : barcode_events[i].work_order_number = wo}

\* the most recent scan event of a work order that has one
MostRecent(wo) ==
    barcode_events[CHOOSE i \in EventsOf(wo) :
        \A j \in EventsOf(wo) :
            barcode_events[j].event_time_utc <= barcode_events[i].event_time_utc]

IsStart(e) == e.event_type \in {"START", "start"}

\* C6: in both variants Currently Running is true exactly when the derived
\* Status is IN_PROGRESS and the most recent scan event of the work order is
\* a START; it is never true with another Status.
C6_RunningIff ==
    OrdersLoaded =>
        \A wo \in DOMAIN orders :
            /\ orders[wo].CurrentlyRunning <=>
                  /\ orders[wo].Status = "IN_PROGRESS"
                  /\ EventsOf(wo) # {}
                  /\ IsStart(MostRecent(wo))
            /\ orders[wo].Status # "IN_PROGRESS" => ~orders[wo].CurrentlyRunning

\* a running order next to one whose last event is a START but whose status
\* is NOT_STARTED, in either variant
C6_Witness ==
    /\ OrdersLoaded
    /\ \E a, b \in DOMAIN orders :
          /\ orders[a].CurrentlyRunning
          /\ orders[b].Status = "NOT_STARTED"
          /\ EventsOf(b) # {}
          /\ IsStart(MostRecent(b))
          /\ ~orders[b].CurrentlyRunning

\* C7: a work order stored as IN_PROGRESS whose trail is empty (with no scan
\* event in particular) is reported NOT_STARTED and not running; no record
\* has Status IN_PROGRESS with an empty Past Machines trail.
C7_DowngradeWithoutTrail ==
    OrdersLoaded =>
        \A wo \in DOMAIN orders :
            /\ (work_orders[wo].status = "IN_PROGRESS" /\ EventsOf(wo) = {})
                  => orders[wo].PastMachines = <<>>
            /\ (work_orders[wo].status = "IN_PROGRESS" /\ orders[wo].PastMachines = <<>>)
                  => (orders[wo].Status = "NOT_STARTED" /\ ~orders[wo].CurrentlyRunning)
            /\ ~(orders[wo].Status = "IN_PROGRESS" /\ orders[wo].PastMachines = <<>>)

\* WO-2 is stored IN_PROGRESS without any scan event, WO-1 is stored
\* IN_PROGRESS with a last START event that has no workstation
C7_Witness ==
    /\ OrdersLoaded
    /\ work_orders["WO-2"].status = "IN_PROGRESS"
    /\ EventsOf("WO-2") = {}
    /\ orders["WO-2"].Status = "NOT_STARTED"
    /\ work_orders["WO-1"].status = "IN_PROGRESS"
    /\ EventsOf("WO-1") # {}
    /\ IsStart(MostRecent("WO-1"))
    /\ MostRecent("WO-1").workstation_code = None
    /\ orders["WO-1"].Status = "NOT_STARTED"

\* C8: when the most recent scan event of a work order has workstation w and
\* step position s >= 1, the trail is s - 1 "EMPTY" markers followed by w;
\* stored IN_PROGRESS and that event a START, the order is running.
C8_TrailFromLastEvent ==
    OrdersLoaded =>
        \A wo \in DOMAIN orders :
            (/\ EventsOf(wo) # {}
             /\ MostRecent(wo).workstation_code # None
             /\ MostRecent(wo).route_step_index # None
             /\ MostRecent(wo).route_step_index[1] >= 1) =>
                LET s == MostRecent(wo).route_step_index[1]
                    w == MostRecent(wo).workstation_code[1]
                    trail == orders[wo].PastMachines
                IN  /\ Len(trail) = s
                    /\ trail[s] = w
                    /\ \A i \in 1..(s - 1) : trail[i] = "EMPTY"
                    /\ (work_orders[wo].status = "IN_PROGRESS" /\ IsStart(MostRecent(wo)))
                          => orders[wo].CurrentlyRunning

\* the scenario: WO-1 IN_PROGRESS, last event START at step 2 on M7, after
\* an earlier event at another step
C8_Witness ==
    /\ OrdersLoaded
    /\ work_orders["WO-1"].status = "IN_PROGRESS"
    /\ Cardinality(EventsOf("WO-1")) = 2
    /\ MostRecent("WO-1").event_type = "START"
    /\ MostRecent("WO-1").route_step_index = Some(2)
    /\ MostRecent("WO-1").workstation_code = Some("M7")
    /\ orders["WO-1"].PastMachines = <<"EMPTY", "M7">>
    /\ orders["WO-1"].CurrentlyRunning

-----------------------------------------------------------------------------
(* Properties of the machine_downtimes table.                              *)

DowntimesLoaded == stage = "downtimes"

Complete(r) == r.downtime_start # None /\ r.downtime_end # None

\* the [start, end] pair under which the instance of a variant reports a row
Reported(r) ==
    IF variant = "timestamp"
    THEN <<[utc |-> 100 * r.downtime_start[1]], [utc |-> 100 * r.downtime_end[1]]>>
    ELSE <<60 * r.downtime_start[1], 60 * r.downtime_end[1]>>

\* the windows the table lists for a workstation
Windows(ws) ==
    IF ws \in DOMAIN machine_downtimes
    THEN {machine_downtimes[ws][i] : i \in DOMAIN machine_downtimes[ws]}
    ELSE {}

\* a window that projects a running job: from present time to a later instant
ProjectsRunningJob(w) ==
    /\ variant = "timestamp"
    /\ w[1] = [utc |-> 100 * present_time]
    /\ w[2].utc > 100 * present_time

\* C9: in both variants no explicit window that ended before present time is
\* in machine_downtimes, and every window of the table comes from a record
\* that has both its start and its end (or projects a running job).
C9_NoElapsedWindow ==
    DowntimesLoaded =>
        /\ \A r \in workstation_downtimes :
              (Complete(r) /\ r.downtime_end[1] < present_time)
                  => Reported(r) \notin Windows(r.workstation_code)
        /\ \A ws \in DOMAIN machine_downtimes :
              \A w \in Windows(ws) :
                  \/ \E r \in workstation_downtimes :
                        /\ r.workstation_code = ws
                        /\ Complete(r)
                        /\ r.downtime_end[1] >= present_time
                        /\ w = Reported(r)
                  \/ ProjectsRunningJob(w)
        /\ \A ws \in DOMAIN machine_downtimes :
              Len(machine_downtimes[ws]) <=
                  Cardinality({r \in workstation_downtimes :
                                  r.workstation_code = ws /\ Complete(r)
                                  /\ r.downtime_end[1] >= present_time})
                  + Cardinality({w \in Windows(ws) : ProjectsRunningJob(w)})

\* a table built from a store with an elapsed window, a record without end
\* and a future window
C9_Witness ==
    /\ DowntimesLoaded
    /\ \E r \in workstation_downtimes :
          Complete(r) /\ r.downtime_end[1] < present_time
    /\ \E r \in workstation_downtimes : ~Complete(r)
    /\ machine_downtimes # EmptyMap

\* C10: in both variants a window that has started and not yet ended is not
\* in machine_downtimes, a window that starts and ends in the future is, and
\* every explicit window of the table starts at or after present time.
C10_OnlyFutureWindows ==
    DowntimesLoaded =>
        \A r \in workstation_downtimes :
            Complete(r) =>
                /\ (r.downtime_start[1] < present_time /\ present_time <= r.downtime_end[1])
                      => Reported(r) \notin Windows(r.workstation_code)
                /\ (r.downtime_start[1] > present_time /\ r.downtime_end[1] > present_time)
                      => Reported(r) \in Windows(r.workstation_code)
                /\ Reported(r) \in Windows(r.workstation_code)
                      => r.downtime_start[1] >= present_time

\* C10, timestamp variant: the claim as stated holds of queries_cplex.py
C10_TimestampOnlyFutureWindows ==
    variant = "timestamp" => C10_OnlyFutureWindows

\* C10, numeric variant: what queries.py does with a window that has started
\* and not ended
C10_NumericKeepsOngoing ==
    (DowntimesLoaded /\ variant = "numeric") =>
        \A r \in workstation_downtimes :
            (Complete(r) /\ r.downtime_start[1] < present_time
                         /\ present_time <= r.downtime_end[1])
                => Reported(r) \in Windows(r.workstation_code)


-----------------------------------------------------------------------------
(* Properties of the inferred running-job windows (timestamp variant).     *)

\* the cycle-table key a scan event with workstation and step resolves to
CycleKey(wo, e) ==
    <<e.route_step_index[1] - 1, orders[wo].Product, e.workstation_code[1]>>

\* hundredths of a minute from a scan event to present time
ElapsedSince(e) == 100 * (present_time - e.event_time_utc)

\* the window from present time to present time + left (hundredths of a minute)
WindowFromNow(left) ==
    <<[utc |-> 100 * present_time], [utc |-> 100 * present_time + left]>>

Occurrences(ws, w) ==
    IF ws \in DOMAIN machine_downtimes
    THEN Cardinality({i \in DOMAIN machine_downtimes[ws] : machine_downtimes[ws][i] = w})
    ELSE 0

\* C11: in the timestamp variant, for a running order whose latest event (a
\* START) is on workstation w at a step with cycle time c, with quantity q and
\* e minutes elapsed since the event, q*c - e > 0, the window
\* [present time, present time + (q*c - e)] is once in the list of w.
C11_InferredWindow ==
    (DowntimesLoaded /\ variant = "timestamp") =>
        \A wo \in DOMAIN orders :
            orders[wo].CurrentlyRunning =>
                LET e == MostRecent(wo)
                    key == CycleKey(wo, e)
                IN  (/\ key \in DOMAIN cycle
                     /\ e.event_time_utc <= present_time
                     /\ orders[wo].Quantity * cycle[key] - ElapsedSince(e) > 0) =>
                        Occurrences(e.workstation_code[1],
                            WindowFromNow(orders[wo].Quantity * cycle[key]
                                          - ElapsedSince(e))) = 1

\* the scenario: 120 minutes expected, started 50 minutes before present
\* time on M3 without explicit downtime: one window of 70 minutes
C11_Witness ==
    /\ DowntimesLoaded
    /\ variant = "timestamp"
    /\ workstation_downtimes = {}
    /\ present_time = 50
    /\ orders["WO-1"].CurrentlyRunning
    /\ orders["WO-1"].Quantity * cycle[<<0, "P1", "M3">>] = 12000
    /\ MostRecent("WO-1").workstation_code = Some("M3")
    /\ MostRecent("WO-1").event_time_utc = 0
    /\ "M3" \in DOMAIN machine_downtimes
    /\ machine_downtimes["M3"] = <<WindowFromNow(7000)>>

\* C12: in the timestamp variant every inferred window of machine_downtimes
\* belongs to an order whose Currently Running flag is true: an order that is
\* not running contributes none, even when its most recent event is a START.
C12_InferredOnlyForRunning ==
    (DowntimesLoaded /\ variant = "timestamp") =>
        \A ws \in DOMAIN machine_downtimes :
            \A w \in Windows(ws) :
                ProjectsRunningJob(w) =>
                    \E wo \in DOMAIN orders :
                        /\ orders[wo].CurrentlyRunning
                        /\ MostRecent(wo).workstation_code = Some(ws)

\* C12, what queries_cplex.py does: a work order stored NOT_STARTED whose
\* most recent event is a START with workstation, step and cycle entry gets
\* an inferred window although its record is not running
C12_WindowWithoutRunningFlag ==
    /\ DowntimesLoaded
    /\ variant = "timestamp"
    /\ work_orders["WO-1"].status = "NOT_STARTED"
    /\ ~orders["WO-1"].CurrentlyRunning
    /\ EventsOf("WO-2") = {}
    /\ workstation_downtimes = {}
    /\ "M3" \in DOMAIN machine_downtimes
    /\ machine_downtimes["M3"] = <<WindowFromNow(7000)>>

-----------------------------------------------------------------------------
(* Properties of the planning scope and of the pipeline on an empty scope. *)

ScopeResolved == scope # None

Eligible(wo) ==
    /\ work_orders[wo].status \in {"NOT_STARTED", "IN_PROGRESS"}
    /\ work_orders[wo].product_group = "Mamul"
    /\ work_orders[wo].sales_order_id # None

\* C13: with the allow-list mode enabled and the list empty, load_plan_scope
\* returns no work order, no product id and no product code and executes no
\* query, whatever the store holds; with the mode enabled and a list that is
\* not empty, every work order of the scope has its number in the list.
C13_AllowList ==
    (ScopeResolved /\ limit_work_orders) =>
        /\ limit_work_order_numbers = <<>> =>
              /\ scope[1].work_order_ids = <<>>
              /\ scope[1].product_ids = {}
              /\ scope[1].product_codes = {}
              /\ stage = "scope" => queries = {}
        /\ limit_work_order_numbers # <<>> =>
              \A i \in DOMAIN scope[1].work_order_ids :
                  \E j \in DOMAIN limit_work_order_numbers :
                      scope[1].work_order_ids[i] = limit_work_order_numbers[j]

\* the mode enabled with an empty list on a store with two eligible work
\* orders
C13_Witness ==
    /\ ScopeResolved
    /\ limit_work_orders
    /\ limit_work_order_numbers = <<>>
    /\ \A wo \in WorkOrders : Eligible(wo)
    /\ scope[1] = empty_scope
    /\ queries = {}

\* the mode enabled with a list naming one of two eligible work orders
C13_WitnessList ==
    /\ ScopeResolved
    /\ limit_work_orders
    /\ limit_work_order_numbers = <<"WO-1">>
    /\ \A wo \in WorkOrders : Eligible(wo)
    /\ scope[1].work_order_ids = <<"WO-1">>

PipelineDone == stage = "downtimes"

EmptyScope == scope # None /\ scope[1] = empty_scope

\* C14: when the resolved scope is empty the pipeline completes and the cycle
\* table, the minimum-batch table, the route table, the order records and
\* the machine-downtime table are all empty, for any store content.
C14_EmptyScopeEmptyInstance ==
    (PipelineDone /\ EmptyScope) =>
        /\ cycle = EmptyMap
        /\ minibatch = EmptyMap
        /\ bom_data = EmptyMap
        /\ orders = EmptyMap
        /\ machine_downtimes = EmptyMap

\* C14, amended: when the resolved scope is empty the pipeline completes with
\* an empty cycle table, minimum-batch table, route table and order records;
\* the machine-downtime table holds no inferred window and exactly the
\* explicit windows of the store that lie after present time.
C14_EmptyScopeKeepsExplicitDowntimes ==
    (PipelineDone /\ EmptyScope) =>
        /\ cycle = EmptyMap
        /\ minibatch = EmptyMap
        /\ bom_data = EmptyMap
        /\ orders = EmptyMap
        /\ \A r \in workstation_downtimes :
              (Complete(r) /\ r.downtime_start[1] > present_time) =>
                  Occurrences(r.workstation_code, Reported(r)) = 1
        /\ \A ws \in DOMAIN machine_downtimes :
              \A w \in Windows(ws) :
                  \E r \in workstation_downtimes :
                      /\ r.workstation_code = ws
                      /\ Complete(r)
                      /\ r.downtime_start[1] > present_time
                      /\ w = Reported(r)

\* an empty scope on a store that holds eligible work orders left out by an
\* empty allow-list, a scan event, an elapsed and a coming downtime row
C14_Witness ==
    /\ PipelineDone
    /\ EmptyScope
    /\ \A wo \in WorkOrders : Eligible(wo)
    /\ barcode_events # <<>>
    /\ Cardinality(workstation_downtimes) = 2
    /\ "M3" \in DOMAIN machine_downtimes
    /\ Len(machine_downtimes["M3"]) = 1

-----------------------------------------------------------------------------
(* Properties of the anchors and quantities of the order records.          *)

\* the text of an instant of the store (minutes) in the timestamp instance
Iso(minutes) == [utc |-> 100 * minutes]

\* C15: in the timestamp variant the Minimum Production Time of an order is
\* the time of its latest scan event when the work order is stored
\* IN_PROGRESS and has an event, otherwise its stored anchor; present time
\* when there is no anchor; an anchor before present time is raised to
\* present time unless the work order is stored IN_PROGRESS, which keeps it.
C15_MinimumProductionTime ==
    (OrdersLoaded /\ variant = "timestamp") =>
        \A wo \in DOMAIN orders :
            LET in_progress == work_orders[wo].status = "IN_PROGRESS"
                anchor == work_orders[wo].min_prod_time
                m == orders[wo].MinimumProductionTime
            IN  /\ (in_progress /\ EventsOf(wo) # {}) =>
                      m = Iso(MostRecent(wo).event_time_utc)
                /\ (~in_progress \/ EventsOf(wo) = {}) =>
                      /\ anchor = None => m = Iso(present_time)
                      /\ (anchor # None /\ in_progress) => m = Iso(anchor[1])
                      /\ (anchor # None /\ ~in_progress) =>
                            m = Iso(IF anchor[1] < present_time THEN present_time
                                    ELSE anchor[1])

\* WO-1 stored IN_PROGRESS keeps the time of an event before present time,
\* WO-2 stored NOT_STARTED has its anchor before present time raised
C15_Witness ==
    /\ OrdersLoaded
    /\ variant = "timestamp"
    /\ work_orders["WO-1"].status = "IN_PROGRESS"
    /\ EventsOf("WO-1") # {}
    /\ MostRecent("WO-1").event_time_utc = 1
    /\ orders["WO-1"].MinimumProductionTime = Iso(1)
    /\ work_orders["WO-2"].status = "NOT_STARTED"
    /\ EventsOf("WO-2") # {}
    /\ work_orders["WO-2"].min_prod_time = Some(0)
    /\ orders["WO-2"].MinimumProductionTime = Iso(2)

CompleteEventsOf(wo) ==
    {i \in EventsOf(wo) : barcode_events[i].event_type \in {"COMPLETE", "complete"}}

\* the most recent COMPLETE event of a work order that has one
MostRecentComplete(wo) ==
    barcode_events[CHOOSE i \in CompleteEventsOf(wo) :
        \A j \in CompleteEventsOf(wo) :
            barcode_events[j].event_time_utc <= barcode_events[i].event_time_utc]

\* C16: the Quantity of an order is its planned quantity, except in the
\* timestamp variant when its Status is IN_PROGRESS and some COMPLETE event
\* of the work order has a produced quantity: then it is the produced
\* quantity of the most recent COMPLETE event.  Numeric: always planned.
C16_QuantityAnyCompleteEvent ==
    OrdersLoaded =>
        \A wo \in DOMAIN orders :
            LET produced == /\ variant = "timestamp"
                            /\ orders[wo].Status = "IN_PROGRESS"
                            /\ \E i \in CompleteEventsOf(wo) :
                                  barcode_events[i].produced_qty # None
            IN  IF produced
                THEN Some(orders[wo].Quantity) = MostRecentComplete(wo).produced_qty
                ELSE orders[wo].Quantity = work_orders[wo].qty_planned

\* C16, amended: the Quantity of an order is its planned quantity, except in
\* the timestamp variant when its reported Status is IN_PROGRESS and the most
\* recent COMPLETE event of the work order has a produced quantity: then it
\* is that produced quantity.  Numeric: always planned.
C16_QuantityLatestCompleteEvent ==
    OrdersLoaded =>
        \A wo \in DOMAIN orders :
            LET produced == /\ variant = "timestamp"
                            /\ orders[wo].Status = "IN_PROGRESS"
                            /\ CompleteEventsOf(wo) # {}
                            /\ MostRecentComplete(wo).produced_qty # None
            IN  IF produced
                THEN Some(orders[wo].Quantity) = MostRecentComplete(wo).produced_qty
                ELSE orders[wo].Quantity = work_orders[wo].qty_planned

\* WO-1, reported IN_PROGRESS, takes the produced quantity 1 of its most
\* recent COMPLETE event instead of the planned quantity 2
C16_Witness ==
    /\ OrdersLoaded
    /\ variant = "timestamp"
    /\ orders["WO-1"].Status = "IN_PROGRESS"
    /\ CompleteEventsOf("WO-1") # {}
    /\ MostRecentComplete("WO-1").produced_qty = Some(1)
    /\ orders["WO-1"].Quantity = 1
    /\ work_orders["WO-1"].qty_planned = 2

-----------------------------------------------------------------------------
(* Properties of Last Process.                                             *)

StepsOf(p) == {r \in route_steps : r.product_code = p}

\* C17: an order whose product has a route in the route table has as Last
\* Process the length of the longest route of the product minus one; Last
\* Process is absent only when the product has no route in the table.
C17_LastProcessFromRouteTable ==
    OrdersLoaded =>
        \A wo \in DOMAIN orders :
            LET p == orders[wo].Product
            IN  /\ p \in DOMAIN bom_data =>
                      /\ orders[wo].LastProcess = Some(Longest(bom_data[p]) - 1)
                      /\ orders[wo].LastProcess = Some(Longest(Loaded.bom[p]) - 1)
                /\ orders[wo].LastProcess = None => p \notin DOMAIN bom_data

\* the steps of every route of a product are numbered 1..n and each has a
\* workstation
StepsComplete(p) ==
    /\ \A r \in StepsOf(p) : r.workstation_code # None
    /\ \A r \in StepsOf(p) :
          \A i \in 1..r.sequence_index :
              \E x \in StepsOf(p) : x.route_id = r.route_id /\ x.sequence_index = i

\* C17 on a store whose route steps are complete: there Last Process is the
\* length of the longest route minus one, absent exactly without a route
C17_LastProcessWhenStepsComplete ==
    OrdersLoaded =>
        \A wo \in DOMAIN orders :
            LET p == orders[wo].Product
            IN  StepsComplete(p) =>
                    /\ p \in DOMAIN bom_data =>
                          orders[wo].LastProcess = Some(Longest(bom_data[p]) - 1)
                    /\ orders[wo].LastProcess = None <=> p \notin DOMAIN bom_data

\* C17, what load_orders does with a route whose last step has no
\* workstation: Last Process 1 for a product whose longest route has one step
C17_LastProcessBeyondRoute ==
    /\ OrdersLoaded
    /\ route_steps = {[product_code |-> "P1", route_id |-> 1, sequence_index |-> 1,
                        workstation_code |-> Some("M3")],
                       [product_code |-> "P1", route_id |-> 1, sequence_index |-> 2,
                        workstation_code |-> None]}
    /\ bom_data["P1"] = <<<<"M3">>>>
    /\ orders["WO-1"].LastProcess = Some(1)

-----------------------------------------------------------------------------
(* Properties of the employee shift block.                                 *)

\* the daily 07:30 and 19:30 boundaries
ShiftBoundaries ==
    {d * MinutesPerDay + 7 * 60 + 30 : d \in 0..(MaxShiftDays + 1)}
        \cup {d * MinutesPerDay + 19 * 60 + 30 : d \in 0..(MaxShiftDays + 1)}

\* the earliest boundary strictly after an instant
NextBoundaryAfter(t) ==
    CHOOSE b \in ShiftBoundaries :
        b > t /\ \A c \in ShiftBoundaries : c > t => b <= c

\* C18: for every present time first_shift_end is the earliest of the daily
\* 07:30 and 19:30 boundaries strictly after present time; a present time on
\* a boundary yields the boundary 12 hours later.
C18_FirstShiftEndStrictlyAfter ==
    employee_shift # None =>
        employee_shift[1].first_shift_end = Iso(NextBoundaryAfter(present_time))

\* C18 off the boundaries: there first_shift_end is the next boundary
C18_FirstShiftEndOffBoundary ==
    (employee_shift # None /\ present_time \notin ShiftBoundaries) =>
        employee_shift[1].first_shift_end = Iso(NextBoundaryAfter(present_time))

\* C18, what _build_employee_shift does at 07:30 of the second day: the
\* shift ends at present time itself
C18_BoundaryReturnsPresentTime ==
    /\ employee_shift # None
    /\ present_time = MinutesPerDay + 7 * 60 + 30
    /\ employee_shift[1].first_shift_end = Iso(present_time)

-----------------------------------------------------------------------------
(* Properties of the Past Machines trail.                                  *)

ResolvableEventsOf(wo) ==
    {i \in EventsOf(wo) : /\ barcode_events[i].workstation_code # None
                          /\ barcode_events[i].route_step_index # None}

\* C19: the trail of a work order is built from the most recent of its scan
\* events that carry both a workstation and a step position: with at least
\* one such event the trail is not empty, even when a later event lacks the
\* workstation or the step position.
C19_TrailFromLatestResolvableEvent ==
    OrdersLoaded =>
        \A wo \in DOMAIN orders :
            ResolvableEventsOf(wo) # {} => orders[wo].PastMachines # <<>>

\* C19, amended: the trail is built from the single most recent scan event
\* of the work order: it is not empty exactly when that event carries both a
\* workstation and a step position, and its last entry is then the
\* workstation of that event; an earlier event is never used.
C19_TrailFromLatestEventOnly ==
    OrdersLoaded =>
        \A wo \in DOMAIN orders :
            /\ orders[wo].PastMachines # <<>> <=>
                  /\ EventsOf(wo) # {}
                  /\ MostRecent(wo).workstation_code # None
                  /\ MostRecent(wo).route_step_index # None
            /\ orders[wo].PastMachines # <<>> =>
                  orders[wo].PastMachines[Len(orders[wo].PastMachines)]
                      = MostRecent(wo).workstation_code[1]

\* an event with workstation and step followed by an event without
\* workstation: the trail is empty
C19_Witness ==
    /\ OrdersLoaded
    /\ Cardinality(EventsOf("WO-1")) = 2
    /\ ResolvableEventsOf("WO-1") # {}
    /\ MostRecent("WO-1").workstation_code = None
    /\ orders["WO-1"].PastMachines = <<>>

-----------------------------------------------------------------------------
(* Properties of a running-job inference that cannot be completed.         *)

\* the latest event of a work order is a START on a workstation
StartedOn(wo, ws) ==
    /\ EventsOf(wo) # {}
    /\ IsStart(MostRecent(wo))
    /\ MostRecent(wo).workstation_code = Some(ws)

\* the remaining time of the job a START event opened, when step position
\* and cycle time are there (hundredths of a minute)
TimeLeft(wo) ==
    LET e == MostRecent(wo)
        run == IF ElapsedSince(e) > 0 THEN ElapsedSince(e) ELSE 0
    IN  orders[wo].Quantity * cycle[CycleKey(wo, e)] - run

\* the inference for the latest START event of a work order can be completed
InferenceCompletes(wo) ==
    /\ \E ws \in InferWorkstations : StartedOn(wo, ws)
    /\ MostRecent(wo).route_step_index # None
    /\ CycleKey(wo, MostRecent(wo)) \in DOMAIN cycle
    /\ TimeLeft(wo) > 0

\* the inference for a running order cannot be completed
InferenceFails(wo) == orders[wo].CurrentlyRunning /\ ~InferenceCompletes(wo)

InferredWindows(ws) ==
    IF ws \in DOMAIN machine_downtimes
    THEN {i \in DOMAIN machine_downtimes[ws] :
             ProjectsRunningJob(machine_downtimes[ws][i])}
    ELSE {}

\* C20: in the timestamp variant, when the inference for a running order
\* cannot be completed (no cycle entry, no step position, remaining time zero
\* or negative) only the window of that order is left out: every explicit
\* window and the inferred window of every other order are in the table, and
\* the table is built.
C20_SkipOnlyFailedInference ==
    (DowntimesLoaded /\ variant = "timestamp") =>
        /\ \A r \in workstation_downtimes :
              (Complete(r) /\ r.downtime_start[1] >= present_time) =>
                  Occurrences(r.workstation_code, Reported(r)) = 1
        /\ \A wo \in DOMAIN orders :
              InferenceCompletes(wo) =>
                  Occurrences(MostRecent(wo).workstation_code[1],
                              WindowFromNow(TimeLeft(wo))) >= 1
        /\ \A ws \in InferWorkstations :
              Cardinality(InferredWindows(ws)) =
                  Cardinality({wo \in DOMAIN orders :
                                  StartedOn(wo, ws) /\ InferenceCompletes(wo)})

\* WO-1 runs on M7, which has no cycle entry; WO-2 runs on M3 since minute
\* 70 and M3 has an explicit downtime: M3 lists both windows, M7 nothing
C20_Witness ==
    /\ DowntimesLoaded
    /\ variant = "timestamp"
    /\ present_time = 130
    /\ InferenceFails("WO-1")
    /\ StartedOn("WO-1", "M7")
    /\ orders["WO-2"].CurrentlyRunning
    /\ InferenceCompletes("WO-2")
    /\ workstation_downtimes # {}
    /\ "M7" \notin DOMAIN machine_downtimes
    /\ machine_downtimes["M3"] = <<Reported(CHOOSE r \in workstation_downtimes : TRUE),
                                   WindowFromNow(6000)>>

-----------------------------------------------------------------------------
(* Frame and completeness of the route normalizer.                         *)

\* the tables after run k of the normalizer
AfterRun(k) == IF k < Len(pad_hist) THEN pad_hist[k + 1] ELSE Tables

\* every entry of a flat map is in another with the same value
Kept(old, new) == \A k \in DOMAIN old : k \in DOMAIN new /\ new[k] = old[k]

\* C23: a run of the normalizer never changes or removes an entry of the
\* cycle table or of the minimum-batch table that was there before the run,
\* an entry of the sentinel workstation included: defaults go in only where
\* the entry is absent.
C23_InjectOnlyIfAbsent ==
    \A k \in DOMAIN pad_hist :
        /\ Kept(pad_hist[k].cycle, AfterRun(k).cycle)
        /\ Kept(pad_hist[k].minibatch, AfterRun(k).minibatch)

\* a loaded cycle entry of the sentinel workstation at an index that the run
\* pads for its product: the entry keeps its loaded value
C23_LoadedCycleEntryKept ==
    /\ Normalized
    /\ \E p \in DOMAIN Loaded.bom, i \in 0..MaxLen :
          /\ \E r \in DOMAIN Loaded.bom[p] :
                Len(Loaded.bom[p][r]) <= i /\ i < Longest(Loaded.bom[p])
          /\ <<i, p, FAKE_WORKSTATION_CODE>> \in DOMAIN Loaded.cycle
          /\ cycle[<<i, p, FAKE_WORKSTATION_CODE>>] # FAKE_CYCLE_TIME_MODEL

\* a loaded minimum-batch entry of the sentinel workstation for a product
\* that the run pads: the entry keeps its loaded value
C23_LoadedMinibatchEntryKept ==
    /\ Normalized
    /\ \E p \in DOMAIN Loaded.bom :
          /\ NeedsPadding(Loaded.bom, p)
          /\ <<p, FAKE_WORKSTATION_CODE>> \in DOMAIN Loaded.minibatch
          /\ minibatch[<<p, FAKE_WORKSTATION_CODE>>] # FAKE_MINIBATCH_QTY

\* a run that found a sentinel entry in one of the two tables
C23_Witness == C23_LoadedCycleEntryKept \/ C23_LoadedMinibatchEntryKept

\* C24: after normalization, for every product and every position at which
\* the normalizer placed the sentinel in a route, the cycle table has an
\* entry (position, product, sentinel) and the minimum-batch table has an
\* entry (product, sentinel).
C24_DefaultsForEveryPaddedPosition ==
    Normalized =>
        \A p \in DOMAIN bom_data :
            \A r \in DOMAIN bom_data[p] :
                \A i \in Len(Loaded.bom[p][r])..(Len(bom_data[p][r]) - 1) :
                    /\ bom_data[p][r][i + 1] = FAKE_WORKSTATION_CODE
                    /\ <<i, p, FAKE_WORKSTATION_CODE>> \in DOMAIN cycle
                    /\ <<p, FAKE_WORKSTATION_CODE>> \in DOMAIN minibatch

\* two products padded in one run, one of them at two positions, from
\* tables without any sentinel entry
C24_Witness ==
    /\ Normalized
    /\ NoSentinelLoaded
    /\ \A p \in Products : NeedsPadding(Loaded.bom, p)
    /\ \E p \in Products :
          \E r \in DOMAIN bom_data[p] :
              Len(bom_data[p][r]) - Len(Loaded.bom[p][r]) >= 2
    /\ \A p \in Products : <<p, FAKE_WORKSTATION_CODE>> \in DOMAIN minibatch

\* C25: normalization only appends: the products of the route table, the
\* number and the order of the routes of a product stay, the loaded sequence
\* of every route is a prefix of the normalized route, and every element
\* after it is the sentinel code.
C25_OnlyAppends ==
    Normalized =>
        /\ DOMAIN bom_data = DOMAIN Loaded.bom
        /\ \A p \in DOMAIN bom_data :
              /\ Len(bom_data[p]) = Len(Loaded.bom[p])
              /\ \A r \in DOMAIN bom_data[p] :
                    LET orig == Loaded.bom[p][r]
                        route == bom_data[p][r]
                    IN  /\ Len(orig) <= Len(route)
                        /\ SubSeq(route, 1, Len(orig)) = orig
                        /\ \A j \in (Len(orig) + 1)..Len(route) :
                              route[j] = FAKE_WORKSTATION_CODE

\* a product whose first route is the shorter one and is padded behind two
\* loaded steps, next to a product left as it was
C25_Witness ==
    /\ Normalized
    /\ \E p, q \in DOMAIN Loaded.bom :
          /\ Len(Loaded.bom[p]) = 2
          /\ Len(Loaded.bom[p][1]) = 2
          /\ Len(bom_data[p][1]) > 2
          /\ bom_data[p][2] = Loaded.bom[p][2]
          /\ p # q
          /\ bom_data[q] = Loaded.bom[q]

-----------------------------------------------------------------------------
(* Shape and place of the inferred running-job windows.                    *)

\* the downtime records of a workstation that the timestamp variant lists
ExplicitRows(ws) ==
    {r \in workstation_downtimes :
        /\ r.workstation_code = ws
        /\ Complete(r)
        /\ r.downtime_end[1] >= present_time
        /\ r.downtime_start[1] >= present_time}

WindowList(ws) ==
    IF ws \in DOMAIN machine_downtimes THEN machine_downtimes[ws] ELSE <<>>

\* a window an order's latest START event on the workstation accounts for:
\* from present time to a later instant, not longer than quantity x cycle
\* time, and exactly that long when the event is not before present time
InferredFor(wo, ws, w) ==
    /\ StartedOn(wo, ws)
    /\ MostRecent(wo).route_step_index # None
    /\ CycleKey(wo, MostRecent(wo)) \in DOMAIN cycle
    /\ LET expected == orders[wo].Quantity * cycle[CycleKey(wo, MostRecent(wo))]
           duration == w[2].utc - w[1].utc
       IN  /\ w[1] = [utc |-> 100 * present_time]
           /\ duration > 0
           /\ duration <= expected
           /\ MostRecent(wo).event_time_utc >= present_time => duration = expected

\* C27: in the timestamp variant the list of a workstation is its explicit
\* windows, unchanged and in the order of their start, followed by the
\* inferred windows; every inferred window starts at present time, ends
\* strictly after it and lasts at most quantity x cycle time of its order,
\* and exactly that when the START event is dated at or after present time.
C27_InferredWindowShape ==
    (DowntimesLoaded /\ variant = "timestamp") =>
        \A ws \in InferWorkstations :
            LET n == Cardinality(ExplicitRows(ws))
                list == WindowList(ws)
            IN  /\ Len(list) >= n
                /\ {list[i] : i \in 1..n} = {Reported(r) : r \in ExplicitRows(ws)}
                /\ \A i, j \in 1..n : i < j => list[i][1].utc <= list[j][1].utc
                /\ \A i \in (n + 1)..Len(list) :
                      \E wo \in DOMAIN orders : InferredFor(wo, ws, list[i])

\* a START event of WO-1 on M3 dated 20 minutes after present time, with an
\* explicit downtime of M3: the explicit window first, then the window of
\* the full expected 120 minutes
C27_Witness ==
    /\ DowntimesLoaded
    /\ variant = "timestamp"
    /\ present_time = 50
    /\ StartedOn("WO-1", "M3")
    /\ MostRecent("WO-1").event_time_utc = 70
    /\ orders["WO-1"].Quantity * cycle[<<0, "P1", "M3">>] = 12000
    /\ Cardinality(ExplicitRows("M3")) = 1
    /\ Len(WindowList("M3")) >= 2
    /\ WindowList("M3")[1] = Reported(CHOOSE r \in ExplicitRows("M3") : TRUE)
    /\ WindowList("M3")[2] = WindowFromNow(12000)

-----------------------------------------------------------------------------
(* Minimum Production Time of the orders reported NOT_STARTED.             *)

\* C28: in the timestamp variant every order record whose Status is
\* NOT_STARTED has a Minimum Production Time at or after present time, the
\* orders stored IN_PROGRESS and downgraded for want of a trail included.
C28_NotStartedNotBeforePresent ==
    (OrdersLoaded /\ variant = "timestamp") =>
        \A wo \in DOMAIN orders :
            orders[wo].Status = "NOT_STARTED" =>
                orders[wo].MinimumProductionTime.utc >= 100 * present_time

\* the floor of present time holds for the orders stored NOT_STARTED
C28_StoredNotStartedNotBeforePresent ==
    (OrdersLoaded /\ variant = "timestamp") =>
        \A wo \in DOMAIN orders :
            work_orders[wo].status = "NOT_STARTED" =>
                orders[wo].MinimumProductionTime.utc >= 100 * present_time

\* a work order stored IN_PROGRESS whose only event has no workstation: it
\* is reported NOT_STARTED with the time of that event, before present time
C28_DowngradedKeepsPastTime ==
    /\ OrdersLoaded
    /\ variant = "timestamp"
    /\ work_orders["WO-1"].status = "IN_PROGRESS"
    /\ EventsOf("WO-1") # {}
    /\ MostRecent("WO-1").workstation_code = None
    /\ MostRecent("WO-1").event_time_utc = 1
    /\ orders["WO-1"].Status = "NOT_STARTED"
    /\ orders["WO-1"].PastMachines = <<>>
    /\ orders["WO-1"].MinimumProductionTime = Iso(1)
    /\ present_time = 2

-----------------------------------------------------------------------------
(* Schedule document endpoints: store_schedule, upload_schedule and        *)
(* load_schedule of main.py.  A JSON value is a record of its type and its *)
(* members: the (key, value) pairs of an object in the order of a dict,    *)
(* the elements of an array as 1-tuples.  A text is what a request body or *)
(* the schedule file holds: it may not be JSON at all, and the text of an  *)
(* object may repeat a key.                                                *)

MaxRequests == 3       \* schedule requests served

JsonObject(members) == [type |-> "object", members |-> members]

Text(valid, type, members) == [valid |-> valid, type |-> type, members |-> members]

\* a body that is not JSON (or not UTF-8); also the body of a GET
InvalidText == Text(FALSE, "null", <<>>)

\* d[k] = v on an ordered dict: a key already there keeps its place
dict_put(members, pair) ==
    IF \E i \in DOMAIN members : members[i][1] = pair[1]
    THEN [i \in DOMAIN members |->
            IF members[i][1] = pair[1] THEN pair ELSE members[i]]
    ELSE Append(members, pair)

RECURSIVE dict_of_pairs(_, _)
dict_of_pairs(pairs, members) ==
    IF pairs = <<>> THEN members
    ELSE dict_of_pairs(Tail(pairs), dict_put(members, Head(pairs)))

\* json.loads of a text that is JSON: for an object the last value of a
\* repeated key wins
loads(text) ==
    IF text.type = "object"
    THEN JsonObject(dict_of_pairs(text.members, <<>>))
    ELSE [type |-> text.type, members |-> text.members]

\* json.dumps(payload, indent=2)
dumps(payload) == Text(TRUE, payload.type, payload.members)

\* k in payload: a key of a dict, an element of a list
Contains(payload, k) ==
    \E i \in DOMAIN payload.members : payload.members[i][1] = k

Response(status, body) == [status |-> status, body |-> body]

Detail(detail) == JsonObject(<< <<"detail", detail>> >>)

StatusOk == Response(200, JsonObject(<< <<"status", "ok">> >>))

\* the test for a JSON object left out
validate_schedule_fields_only(payload) ==
    IF ~Contains(payload, "machines") \/ ~Contains(payload, "items")
    THEN Response(400, Detail("Schedule payload must include 'machines' and 'items'"))
    ELSE StatusOk

\* _validate_schedule: the HTTPException it raises, StatusOk when it returns
validate_schedule(payload) ==
    IF payload.type # "object"
    THEN Response(400, Detail("Schedule payload must be JSON object"))
    ELSE IF ~Contains(payload, "machines") \/ ~Contains(payload, "items")
    THEN Response(400, Detail("Schedule payload must include 'machines' and 'items'"))
    ELSE StatusOk

\* SCHEDULE_FILE.write_text(json.dumps(payload, indent=2)) after validation
write_schedule(file, payload) ==
    LET checked == validate_schedule(payload)
    IN  IF checked.status # 200 THEN <<file, checked>>
        ELSE <<Some(dumps(payload)), StatusOk>>

\* POST /schedule: the body is bound to Dict[str, Any] before the handler
\* runs (422 for a body that is not a JSON object)
store_schedule(file, raw) ==
    IF ~raw.valid \/ raw.type # "object"
    THEN <<file, Response(422, Detail("validation error"))>>
    ELSE write_schedule(file, loads(raw))

\* POST /schedule-upload
upload_schedule(file, raw) ==
    IF ~raw.valid THEN <<file, Response(400, Detail("Invalid JSON"))>>
    ELSE write_schedule(file, loads(raw))

\* GET /schedule
load_schedule(file) ==
    IF file = None THEN Response(404, Detail("No schedule uploaded yet"))
    ELSE Response(200, loads(file[1]))

StoreSchedule(raw) ==
    /\ Len(responses) < MaxRequests
    /\ LET done == store_schedule(schedule_file, raw)
       IN  /\ schedule_file' = done[1]
           /\ responses' = Append(responses,
                  [op |-> "store", raw |-> raw, response |-> done[2]])
    /\ UNCHANGED <<pad_vars, store_vars, req_vars, scope_vars, route_steps,
                   employee_shift, requests, reads>>

UploadSchedule(raw) ==
    /\ Len(responses) < MaxRequests
    /\ LET done == upload_schedule(schedule_file, raw)
       IN  /\ schedule_file' = done[1]
           /\ responses' = Append(responses,
                  [op |-> "upload", raw |-> raw, response |-> done[2]])
    /\ UNCHANGED <<pad_vars, store_vars, req_vars, scope_vars, route_steps,
                   employee_shift, requests, reads>>

LoadSchedule ==
    /\ Len(responses) < MaxRequests
    /\ responses' = Append(responses,
          [op |-> "retrieve", raw |-> InvalidText,
           response |-> load_schedule(schedule_file)])
    /\ UNCHANGED <<pad_vars, store_vars, req_vars, scope_vars, route_steps,
                   employee_shift, schedule_file, requests, reads>>

\* the bodies sent: objects with and without the two fields, an object
\* text repeating a key, an array naming both fields, null, and no JSON
RequestTexts ==
    {Text(TRUE, "object", m) :
        m \in {<<>>,
               << <<"machines", "a">> >>,
               << <<"items", "a">> >>,
               << <<"machines", "a">>, <<"items", "a">> >>,
               << <<"items", "b">>, <<"machines", "a">>, <<"note", "a">> >>,
               << <<"machines", "a">>, <<"items", "a">>, <<"machines", "b">> >>}}
    \cup {Text(TRUE, "array", << <<"machines">>, <<"items">> >>),
          Text(TRUE, "null", <<>>),
          InvalidText}

ScheduleInit ==
    /\ PadInit
    /\ work_orders = EmptyMap
    /\ barcode_events = <<>>
    /\ workstation_downtimes = {}
    /\ present_time = 0
    /\ ReqInit
    /\ ExtInit

ScheduleNext ==
    \/ \E raw \in RequestTexts : StoreSchedule(raw)
    \/ \E raw \in RequestTexts : UploadSchedule(raw)
    \/ LoadSchedule

\* the schedule endpoints, one request served at a time
SpecSchedule == ScheduleInit /\ [][ScheduleNext]_vars

-----------------------------------------------------------------------------
(* Properties of the schedule endpoints.                                   *)

IsPost(i) == responses[i].op \in {"store", "upload"}

\* the JSON value a body stands for, when it is JSON
PayloadOf(raw) == loads(raw)

WellFormed(raw) ==
    /\ raw.valid
    /\ raw.type = "object"
    /\ \E i \in DOMAIN raw.members : raw.members[i][1] = "machines"
    /\ \E i \in DOMAIN raw.members : raw.members[i][1] = "items"

Accepted(i) == IsPost(i) /\ responses[i].response.status = 200

\* the requests accepted before request i
AcceptedBefore(i) == {j \in 1..(i - 1) : Accepted(j)}

\* the payload most recently accepted before request i
LastAcceptedBefore(i) == PayloadOf(responses[Max(AcceptedBefore(i))].raw)

\* C22: for every sequence of store, upload and retrieve requests: a
\* request is accepted only if its body is a JSON object with the fields
\* machines and items (and every such body is accepted); a request answered
\* 400 leaves the stored schedule as it was: the file holds the payload
\* accepted last, or does not exist; a retrieval returns the payload accepted
\* last before it, and 404 when none was.
C22_ScheduleStore ==
    LET n == Len(responses)
    IN  /\ \A i \in 1..n :
              IsPost(i) =>
                  /\ Accepted(i) <=> WellFormed(responses[i].raw)
                  /\ ~Accepted(i) => responses[i].response.status \in {400, 422}
                  /\ responses[i].op = "upload" =>
                        responses[i].response.status \in {200, 400}
        /\ IF AcceptedBefore(n + 1) = {} THEN schedule_file = None
           ELSE /\ schedule_file # None
                /\ loads(schedule_file[1]) = LastAcceptedBefore(n + 1)
        /\ \A i \in 1..n :
              responses[i].op = "retrieve" =>
                  IF AcceptedBefore(i) = {}
                  THEN responses[i].response.status = 404
                  ELSE /\ responses[i].response.status = 200
                       /\ responses[i].response.body = LastAcceptedBefore(i)

\* a payload is stored, a body without the field items is refused with 400,
\* and the retrieval that follows returns the stored payload
C22_Witness ==
    /\ Len(responses) = 3
    /\ responses[1].op = "store"
    /\ Accepted(1)
    /\ responses[2].op = "upload"
    /\ responses[2].raw.type = "object"
    /\ responses[2].response.status = 400
    /\ responses[3].op = "retrieve"
    /\ responses[3].response.status = 200
    /\ responses[3].response.body = PayloadOf(responses[1].raw)
    /\ Contains(responses[3].response.body, "note")

-----------------------------------------------------------------------------
(* Two planning requests served at the same time: GET /planner-input runs  *)
(* get_planner_input_cplex on a session of its own.  Every table of the    *)
(* pipeline is a local of the call; a request advances one stage at a      *)
(* step, and the steps of the two requests interleave freely.              *)

RequestIds == {1, 2}

\* now = present_time or datetime.now(timezone.utc), in minutes
RequestTimes == {1, 2}

\* the locals of get_planner_input_cplex before its first statement
new_request(now) ==
    [stage |-> "start", now |-> now, scope |-> None,
     bom_data |-> EmptyMap, cycle |-> EmptyMap, minibatch |-> EmptyMap,
     orders |-> EmptyMap, machine_downtimes |-> EmptyMap,
     employee_shift |-> None]

\* present time kept in one place for all requests: that of the first
request_now_of_first(reqs, r) == reqs[1].now

\* now: a local of the call that serves request r
request_now(reqs, r) == reqs[r].now

\* scope = load_plan_scope(session, tenant_id)
RequestScope(r) ==
    /\ requests[r].stage = "start"
    /\ requests' = [requests EXCEPT
          ![r].scope = Some(load_plan_scope(limit_work_orders,
                                           limit_work_order_numbers, work_orders)),
          ![r].stage = "scope"]
    /\ UNCHANGED <<pad_vars, store_vars, req_vars, scope_vars, route_steps,
                   employee_shift, schedule_file, responses, reads>>

\* the three loaders and the normalizer on the tables they returned
RequestStructures(r) ==
    /\ requests[r].stage = "scope"
    /\ LET product_ids == requests[r].scope[1].product_ids
           loaded == IF product_ids = {} THEN empty_structures
                     ELSE store_structures(product_ids)
           t == pad_boms_and_inject_fake_defaults_sparse(loaded)
       IN  requests' = [requests EXCEPT ![r].bom_data = t.bom,
                                        ![r].cycle = t.cycle,
                                        ![r].minibatch = t.minibatch,
                                        ![r].stage = "structures"]
    /\ UNCHANGED <<pad_vars, store_vars, req_vars, scope_vars, route_steps,
                   employee_shift, schedule_file, responses, reads>>

\* orders = load_orders(session, tenant_id, scope, now)
RequestOrders(r) ==
    /\ requests[r].stage = "structures"
    /\ LET ids == Range(requests[r].scope[1].work_order_ids)
       IN  requests' = [requests EXCEPT
              ![r].orders = IF ids = {} THEN EmptyMap
                            ELSE load_orders("timestamp",
                                             [wo \in ids |-> work_orders[wo]],
                                             barcode_events, request_now(requests, r),
                                             route_steps),
              ![r].stage = "orders"]
    /\ UNCHANGED <<pad_vars, store_vars, req_vars, scope_vars, route_steps,
                   employee_shift, schedule_file, responses, reads>>

\* machine_downtimes = load_downtimes(session, tenant_id, now, orders, cycle)
RequestDowntimes(r) ==
    /\ requests[r].stage = "orders"
    /\ \E rows \in downtime_query(workstation_downtimes) :
          requests' = [requests EXCEPT
              ![r].machine_downtimes =
                  load_downtimes("timestamp", rows, request_now(requests, r),
                                 requests[r].orders,
                                 requests[r].cycle,
                                 barcode_events),
              ![r].stage = "downtimes"]
    /\ UNCHANGED <<pad_vars, store_vars, req_vars, scope_vars, route_steps,
                   employee_shift, schedule_file, responses, reads>>

\* "employee_shift": _build_employee_shift(now), and the return
RequestReturn(r) ==
    /\ requests[r].stage = "downtimes"
    /\ requests' = [requests EXCEPT
          ![r].employee_shift = Some(build_employee_shift(request_now(requests, r))),
          ![r].stage = "done"]
    /\ UNCHANGED <<pad_vars, store_vars, req_vars, scope_vars, route_steps,
                   employee_shift, schedule_file, responses, reads>>

\* the work orders of the store: both stored IN_PROGRESS
ConcurrentWorkOrderRows ==
    [WorkOrders -> [status : {"IN_PROGRESS"}, product_code : Products,
                    qty_planned : {2}, min_prod_time : {None},
                    product_group : {"Mamul"}, sales_order_id : {Some(1)}]]

ConcurrentInit ==
    /\ PadInit
    /\ work_orders \in ConcurrentWorkOrderRows
    /\ barcode_events \in ScopeEventLogs
    /\ workstation_downtimes \in ScopeDowntimeRows
    /\ present_time = 0
    /\ ReqInit
    /\ limit_work_orders \in BOOLEAN
    /\ limit_work_order_numbers = <<"WO-1">>
    /\ scope = None
    /\ queries = {}
    /\ route_steps = {}
    /\ employee_shift = None
    /\ schedule_file = None
    /\ responses = <<>>
    /\ requests \in [RequestIds -> {new_request(now) : now \in RequestTimes}]
    /\ reads = None

ConcurrentNext ==
    \E r \in RequestIds :
        \/ RequestScope(r)
        \/ RequestStructures(r)
        \/ RequestOrders(r)
        \/ RequestDowntimes(r)
        \/ RequestReturn(r)

\* two requests on the same store, their stages interleaved
SpecConcurrent == ConcurrentInit /\ [][ConcurrentNext]_vars

-----------------------------------------------------------------------------
(* Independence of concurrent planning requests.                           *)

\* the instance a request returns
Instance(r) ==
    [cycle |-> requests[r].cycle, minibatch |-> requests[r].minibatch,
     bom_data |-> requests[r].bom_data, orders |-> requests[r].orders,
     machine_downtimes |-> requests[r].machine_downtimes,
     employee_shift |-> requests[r].employee_shift,
     present_time |-> requests[r].now]

\* the instances a request at present time now returns when it is the only
\* one (one per order in which the downtime query may return its rows)
AloneInstances(now) ==
    LET sc == load_plan_scope(limit_work_orders, limit_work_order_numbers,
                              work_orders)
        t == pad_boms_and_inject_fake_defaults_sparse(
                 IF sc.product_ids = {} THEN empty_structures
                 ELSE store_structures(sc.product_ids))
        ids == Range(sc.work_order_ids)
        ords == IF ids = {} THEN EmptyMap
                ELSE load_orders("timestamp", [wo \in ids |-> work_orders[wo]],
                                 barcode_events, now, route_steps)
    IN  {[cycle |-> t.cycle, minibatch |-> t.minibatch, bom_data |-> t.bom,
          orders |-> ords,
          machine_downtimes |-> load_downtimes("timestamp", rows, now, ords,
                                               t.cycle, barcode_events),
          employee_shift |-> Some(build_employee_shift(now)),
          present_time |-> now] : rows \in downtime_query(workstation_downtimes)}

\* C21: under every interleaving of two planning requests, a request that
\* has returned holds an instance it returns when run alone on the same
\* store and present time, and no step of a request writes the store or
\* the module-level settings.
C21_RequestsDoNotInterfere ==
    [][/\ \A r \in RequestIds :
            requests'[r].stage = "done" =>
                Instance(r)' \in AloneInstances(requests'[r].now)
       /\ UNCHANGED <<store_vars, route_steps, limit_work_orders,
                      limit_work_order_numbers>>]_vars

\* request 2 has returned while request 1, at another present time, is
\* between its stages, and the two hold different order records
C21_Witness ==
    /\ requests # <<>>
    /\ requests[2].stage = "done"
    /\ requests[1].stage = "orders"
    /\ requests[1].now # requests[2].now
    /\ requests[1].orders # EmptyMap
    /\ requests[1].orders # requests[2].orders
    /\ requests[2].machine_downtimes # EmptyMap

-----------------------------------------------------------------------------
(* The reads of load_orders and of _append_running_job_downtimes on the    *)
(* scan events, one query at a step (timestamp variant).  Each query sees  *)
(* the events committed when it runs; the store may commit an event        *)
(* between two queries, and two events may carry the same time.            *)

\* the store writes a scan event (not this program), whatever the request
\* is doing; its time is not before the times already there
InsertEvent(wo, event_type, route_step_index, workstation_code, event_time_utc) ==
    /\ Len(barcode_events) < MaxEvents
    /\ \A i \in DOMAIN barcode_events :
          barcode_events[i].event_time_utc <= event_time_utc
    /\ barcode_events' = Append(barcode_events,
          [work_order_number |-> wo,
           event_type |-> event_type,
           route_step_index |-> route_step_index,
           workstation_code |-> workstation_code,
           produced_qty |-> None,
           event_time_utc |-> event_time_utc])
    /\ UNCHANGED <<pad_vars, work_orders, workstation_downtimes, present_time,
                   req_vars, scope_vars, route_steps, employee_shift,
                   schedule_file, responses, requests, reads>>

\* the events of a work order that ORDER BY be.event_time_utc DESC may put
\* first: those of the greatest time
latest_candidates(events, wo) ==
    {i \in DOMAIN events :
        /\ events[i].work_order_number = wo
        /\ \A j \in DOMAIN events :
              events[j].work_order_number = wo =>
                  events[j].event_time_utc <= events[i].event_time_utc}

\* SELECT DISTINCT ON (wo.work_order_number) ... ORDER BY
\* wo.work_order_number, be.event_time_utc DESC: the results the query may
\* give, one row per work order that has an event; id is the row of
\* barcode_events the result row was read from
distinct_on_latest(events) ==
    LET with_events == {wo \in WorkOrders : latest_candidates(events, wo) # {}}
    IN  {[wo \in with_events |-> [id |-> pick[wo], row |-> events[pick[wo]]]] :
            pick \in {f \in [with_events -> DOMAIN events] :
                         \A wo \in with_events :
                             f[wo] \in latest_candidates(events, wo)}}

\* no query of the request has run
no_reads ==
    [at |-> "start", latest |-> EmptyMap, trail |-> EmptyMap,
     last_event |-> EmptyMap, running |-> EmptyMap]

\* latest_event_time_by_wo_id: SELECT ... MAX(be.event_time_utc)
ReadLatestEventTimes ==
    /\ reads.at = "start"
    /\ reads' = [reads EXCEPT !.at = "latest",
                              !.latest = latest_event_time_by_wo(barcode_events)]
    /\ UNCHANGED <<pad_vars, store_vars, req_vars, scope_vars, route_steps,
                   employee_shift, schedule_file, responses, requests>>

\* bc_rows of load_orders (past machines)
ReadTrailRows ==
    /\ reads.at = "latest"
    /\ \E rows \in distinct_on_latest(barcode_events) :
          reads' = [reads EXCEPT !.at = "trail", !.trail = rows]
    /\ UNCHANGED <<pad_vars, store_vars, req_vars, scope_vars, route_steps,
                   employee_shift, schedule_file, responses, requests>>

\* last_rows of load_orders (event type)
ReadLastEventRows ==
    /\ reads.at = "trail"
    /\ \E rows \in distinct_on_latest(barcode_events) :
          reads' = [reads EXCEPT !.at = "last_event", !.last_event = rows]
    /\ UNCHANGED <<pad_vars, store_vars, req_vars, scope_vars, route_steps,
                   employee_shift, schedule_file, responses, requests>>

\* one iteration of "for wo_id in work_order_ids" on the rows read
order_record_of_reads(wo, base, rd, complete_qty, now) ==
    LET status == Upper(base.status)
        trail == IF wo \in DOMAIN rd.trail THEN past_machines(rd.trail[wo].row)
                 ELSE <<>>
        last_event == [w \in DOMAIN rd.last_event |->
                          Upper(rd.last_event[w].row.event_type)]
        progress0 == IF status = "" THEN "NOT_STARTED" ELSE status
        progress == derived_status(progress0, trail)
    IN  [Product |-> base.product_code,
         Quantity |-> order_quantity("timestamp", progress, complete_qty, wo,
                                     base.qty_planned),
         LastProcess |-> None,
         MinimumProductionTime |->
             minimum_production_time("timestamp", status, base.min_prod_time,
                                     rd.latest, wo, now),
         Status |-> progress,
         PastMachines |-> trail,
         CurrentlyRunning |-> currently_running(progress, last_event, wo)]

\* the last_complete_qty query and the loop that builds the order records
BuildOrderRecords ==
    /\ reads.at = "last_event"
    /\ reads' = [reads EXCEPT !.at = "orders"]
    /\ variant' = "timestamp"
    /\ orders' = [wo \in DOMAIN work_orders |->
                     order_record_of_reads(wo, work_orders[wo], reads,
                         last_complete_qty_by_wo(barcode_events), present_time)]
    /\ stage' = "orders"
    /\ UNCHANGED <<pad_vars, store_vars, machine_downtimes, scope_vars,
                   route_steps, employee_shift, schedule_file, responses,
                   requests>>

\* load_downtimes: the explicit windows, then the rows of
\* _append_running_job_downtimes and its loop
ReadRunningRows ==
    /\ reads.at = "orders"
    /\ \E explicit \in downtime_query(workstation_downtimes),
          rows \in distinct_on_latest(barcode_events) :
          /\ reads' = [reads EXCEPT !.at = "downtimes", !.running = rows]
          /\ machine_downtimes' =
                append_running_rows([wo \in DOMAIN rows |-> rows[wo].row],
                    present_time, orders, cycle,
                    explicit_downtimes("timestamp", explicit, present_time,
                                       EmptyMap))
    /\ stage' = "downtimes"
    /\ UNCHANGED <<pad_vars, store_vars, variant, orders, scope_vars,
                   route_steps, employee_shift, schedule_file, responses,
                   requests>>

ReadEventTimes == {1, 2}

ReadEventSteps == {Some(1), Some(2)}

ReadsInit ==
    /\ bom_data = EmptyMap
    /\ cycle = (<<0, "P1", "M3">> :> std_cycle_model(120))
                  @@ (<<1, "P1", "M7">> :> std_cycle_model(120))
    /\ minibatch = EmptyMap
    /\ pad_hist = <<>>
    /\ work_orders \in [WorkOrders ->
          [status : {"IN_PROGRESS"}, product_code : {"P1"}, qty_planned : {2},
           min_prod_time : {None}]]
    /\ barcode_events = <<>>
    /\ workstation_downtimes = {}
    /\ present_time = 2
    /\ ReqInit
    /\ limit_work_orders = FALSE
    /\ limit_work_order_numbers = <<>>
    /\ scope = None
    /\ queries = {}
    /\ route_steps = {}
    /\ employee_shift = None
    /\ schedule_file = None
    /\ responses = <<>>
    /\ requests = <<>>
    /\ reads = no_reads

ReadsNext ==
    \/ \E wo \in WorkOrders, t \in InferEventTypes, step \in ReadEventSteps,
          ws \in InferWorkstations, at \in ReadEventTimes :
          InsertEvent(wo, t, step, Some(ws), at)
    \/ ReadLatestEventTimes
    \/ ReadTrailRows
    \/ ReadLastEventRows
    \/ BuildOrderRecords
    \/ ReadRunningRows

\* load_orders and load_downtimes query by query, the store being written
\* meanwhile
SpecReads == ReadsInit /\ [][ReadsNext]_vars

-----------------------------------------------------------------------------
(* The scan event behind the fields of an order record.                    *)

ReadsDone == reads.at = "downtimes"

\* the four reads of a work order gave one and the same scan event
OneEvent(wo) ==
    /\ wo \in DOMAIN reads.latest
    /\ wo \in DOMAIN reads.trail
    /\ wo \in DOMAIN reads.last_event
    /\ wo \in DOMAIN reads.running
    /\ reads.trail[wo].id = reads.last_event[wo].id
    /\ reads.trail[wo].id = reads.running[wo].id
    /\ reads.trail[wo].row.event_time_utc = reads.latest[wo]

\* some read of the request found an event of the work order
SomeRead(wo) ==
    \/ wo \in DOMAIN reads.latest
    \/ wo \in DOMAIN reads.trail
    \/ wo \in DOMAIN reads.last_event
    \/ wo \in DOMAIN reads.running

\* C26: the event that gives the Past Machines trail of an order, the event
\* whose type decides Currently Running, the event whose time overrides
\* Minimum Production Time and the event of the inferred running window are
\* one and the same event, also when two events share a time or an event is
\* written between the reads.
C26_FieldsFromOneEvent ==
    ReadsDone => \A wo \in DOMAIN orders : SomeRead(wo) => OneEvent(wo)

\* no two events of the work order carry the same time, and the time the
\* first read found is still the latest
QuietFor(wo) ==
    /\ \A i, j \in EventsOf(wo) :
          i # j => barcode_events[i].event_time_utc # barcode_events[j].event_time_utc
    /\ wo \in DOMAIN reads.latest
    /\ EventsOf(wo) # {}
    /\ reads.latest[wo] = MostRecent(wo).event_time_utc

\* with distinct event times and no event written during the request, the
\* fields come from one event
C26_OneEventOnQuietStore ==
    ReadsDone => \A wo \in DOMAIN orders : QuietFor(wo) => OneEvent(wo)

\* an event written between the reads: the trail (M3) and the time are
\* those of the START event, the running flag is decided by the COMPLETE
\* event written after the trail was read
C26_EventBetweenReads ==
    /\ ReadsDone
    /\ Len(barcode_events) = 2
    /\ barcode_events[1].event_time_utc < barcode_events[2].event_time_utc
    /\ EventsOf("WO-1") = {1, 2}
    /\ "WO-1" \in DOMAIN reads.trail
    /\ reads.trail["WO-1"].id = 1
    /\ reads.last_event["WO-1"].id = 2
    /\ IsStart(barcode_events[1])
    /\ ~IsStart(barcode_events[2])
    /\ orders["WO-1"].PastMachines = <<"M3">>
    /\ orders["WO-1"].MinimumProductionTime = Iso(1)
    /\ ~orders["WO-1"].CurrentlyRunning

\* two events of one work order with the same time: the trail is read from
\* one, the event type from the other
C26_SameTimeEvents ==
    /\ ReadsDone
    /\ Len(barcode_events) = 2
    /\ barcode_events[1].event_time_utc = barcode_events[2].event_time_utc
    /\ EventsOf("WO-1") = {1, 2}
    /\ reads.latest = ("WO-1" :> barcode_events[1].event_time_utc)
    /\ DOMAIN reads.trail = {"WO-1"}
    /\ reads.trail["WO-1"].id # reads.last_event["WO-1"].id
=============================================================================
